---- MODULE Spec2Model ----
(***************************************************************************)
(* Model of mitmproxy/proxy/layers/quic.py: the QUIC stream relay          *)
(* (QuicStreamLayer, QuicStream), the QUIC endpoint layer (QuicLayer,      *)
(* ClientQuicLayer) with its wakeup registry, and the process-wide         *)
(* connection-ID table.                                                    *)
(***************************************************************************)
EXTENDS Integers, Sequences, FiniteSets, TLC

VARIABLES
    relay,        \* the QuicStreamLayer object: state, flow, quic_client, quic_server, buffers, streams
    engines,      \* the two aioquic connections as the relay sees them: calls received, _close_event
    conns,        \* context.client / context.server: connected, timestamp_start
    out,          \* commands and hooks yielded while handling the last event
    hist,         \* history: events handed to handle_quic_event and events it worked off, per side
    raised,       \* the exception that ended the last handler, or None
    layers,       \* the ClientQuicLayer objects (one per UDP flow) with their engine and connection
    connections,  \* ClientQuicLayer.connections: (sockname, cid) -> owning layer
    clock,        \* the event loop's time and the last connection ID an engine has generated
    lout,         \* commands and hooks the QUIC layers yielded while handling the last event
    lhist         \* history of the last event on the QUIC layers

relayVars == <<relay, engines, conns, out, hist>>

layerVars == <<layers, connections, clock, lout, lhist>>

vars == <<relay, engines, conns, out, hist, raised, layers, connections, clock, lout, lhist>>

(***************************************************************************)
(* Bounds of the model.                                                    *)
(***************************************************************************)
\* number of events (organic or injected) handed to handle_quic_event in one run
MaxEvents == 2

\* Python's None where a string or a number is expected
None == "None"
\* Python's None where an object is expected
NoneRec == [none |-> TRUE]

\* the latest time of the event loop's clock, and the latest deadline an engine reports
MaxTime == 2
\* the number of connection IDs the engines generate in one run
MaxCid == 3
\* the number of events an engine queues in one call
MaxBatch == 2

\* payloads carried by engine events and injected messages
Payloads == {"ABC", ""}
\* what a message hook may write into message.content; None: the hook leaves it alone
HookWrites == {None, "ab", ""}
\* stream ids: 0 is client-initiated bidirectional, 3 is server-initiated unidirectional
StreamIds == {0, 2, 3}
\* error codes carried by StreamReset events
ResetCodes == {268}
Sides == {"client", "server"}

ConnectionTerminated(error_code, frame_type, reason_phrase) ==
    [type |-> "ConnectionTerminated", error_code |-> error_code,
     frame_type |-> frame_type, reason_phrase |-> reason_phrase]

\* the close events an engine may hold when its connection closes
CloseEvents ==
    { ConnectionTerminated(0, None, ""),
      ConnectionTerminated(256, None, "bad cert"),
      ConnectionTerminated(12, None, "UDP connection closed or timed out.") }

(***************************************************************************)
(* aioquic events the relay sees.                                          *)
(***************************************************************************)
DatagramFrameReceived(data) == [type |-> "DatagramFrameReceived", data |-> data]
StreamDataReceived(stream_id, data, end_stream) ==
    [type |-> "StreamDataReceived", stream_id |-> stream_id, data |-> data, end_stream |-> end_stream]
StreamReset(stream_id, error_code) ==
    [type |-> "StreamReset", stream_id |-> stream_id, error_code |-> error_code]
OtherQuicEvent == [type |-> "PingAcknowledged"]

DataEvents ==
    {DatagramFrameReceived(d) : d \in Payloads}
    \cup {StreamDataReceived(i, d, e) : i \in StreamIds, d \in Payloads, e \in BOOLEAN}
    \cup {StreamReset(i, c) : i \in StreamIds, c \in ResetCodes}
    \cup {OtherQuicEvent}

(***************************************************************************)
(* error_code_to_str / is_success_error_code                               *)
(***************************************************************************)
error_code_to_str(error_code) ==
    CASE error_code = 256 -> "H3_NO_ERROR"
      [] error_code = 268 -> "H3_REQUEST_CANCELLED"
      [] error_code = 0 -> "NO_ERROR"
      [] error_code = 12 -> "APPLICATION_ERROR"
      [] OTHER -> "unknown error"

OnlyNoError(error_code) == error_code = 0

NeverSuccess(error_code) == FALSE

is_success_error_code(error_code) == error_code \in {0, 256}

(***************************************************************************)
(* QuicStream                                                              *)
(***************************************************************************)
stream_is_unidirectional(stream_id) == (stream_id \div 2) % 2 = 1
stream_is_client_initiated(stream_id) == stream_id % 2 = 0

NewFlow == [error |-> None, live |-> TRUE, messages |-> <<>>]

QuicStream(stream_id, ignore) ==
    [ stream_id |-> stream_id,
      flow |-> IF ignore THEN NoneRec ELSE NewFlow,
      ended_client |-> stream_is_unidirectional(stream_id) /\ ~stream_is_client_initiated(stream_id),
      ended_server |-> stream_is_unidirectional(stream_id) /\ stream_is_client_initiated(stream_id) ]

NeverEnded(stream, client) == FALSE

has_ended(stream, client) == IF client THEN stream.ended_client ELSE stream.ended_server

\* A handler's working state: s.relay, s.engines, s.conns, s.out, s.hist, s.raised.
Yield(s, cmds) == [s EXCEPT !.out = @ \o cmds]
Raise(s, what) == [s EXCEPT !.raised = what]

BothEndedWithoutError(stream) ==
    stream.ended_client /\ stream.ended_server /\ stream.flow.error = None

\* if self._ended_client and self._ended_server: ... self.flow.live = False
BothEnded(stream) == stream.ended_client /\ stream.ended_server

AnyError(flow, err) == err # None

\* if err is not None and self.flow.error is None
FirstError(flow, err) == err # None /\ flow.error = None

mark_ended(s0, stream_id, client, err) ==
    LET stream == s0.relay.streams_by_id[stream_id]
        ended == IF client THEN stream.ended_client ELSE stream.ended_server
        s == [s0 EXCEPT !.hist.marked =
                 Append(@, [stream_id |-> stream_id, client |-> client, ended |-> ended,
                            err |-> err])]
    IN
    IF ended THEN Raise(s, "AssertionError: mark_ended")
    ELSE
      LET st1 == IF client THEN [stream EXCEPT !.ended_client = TRUE]
                           ELSE [stream EXCEPT !.ended_server = TRUE]
      IN
      IF st1.flow = NoneRec
      THEN [s EXCEPT !.relay.streams_by_id[stream_id] = st1]
      ELSE
        LET first_err == FirstError(st1.flow, err)
            st2 == IF first_err THEN [st1 EXCEPT !.flow.error = err] ELSE st1
            both == st2.ended_client /\ st2.ended_server
            st3 == IF BothEnded(st2) THEN [st2 EXCEPT !.flow.live = FALSE] ELSE st2
            cmds == (IF first_err THEN <<[cmd |-> "TcpErrorHook", stream_id |-> stream_id]>> ELSE <<>>)
                    \o (IF both /\ st2.flow.error = None
                        THEN <<[cmd |-> "TcpEndHook", stream_id |-> stream_id]>> ELSE <<>>)
        IN Yield([s EXCEPT !.relay.streams_by_id[stream_id] = st3], cmds)

(***************************************************************************)
(* QuicStreamLayer                                                         *)
(***************************************************************************)
PeerOf(side) == IF side = "client" THEN "server" ELSE "client"

\* a call made on an aioquic connection (send_datagram_frame, send_stream_data, reset_stream, close)
EngineCall(s, side, call) == [s EXCEPT !.engines[side].calls = Append(@, call)]

get_or_create_stream(s, stream_id) ==
    IF stream_id \in DOMAIN s.relay.streams_by_id THEN s
    ELSE
      LET stream == QuicStream(stream_id, s.relay.flow = NoneRec)
          s1 == [s EXCEPT !.relay.streams_by_id =
                     [i \in DOMAIN @ \cup {stream_id} |-> IF i = stream_id THEN stream ELSE @[i]],
                          !.relay.stream_order = Append(@, stream_id)]
      IN IF stream.flow # NoneRec
         THEN Yield(s1, <<[cmd |-> "TcpStartHook", stream_id |-> stream_id]>>)
         ELSE s1

\* the content read back from a message after the message hook has returned
HookedContent(data, hook) == IF hook = None THEN data ELSE hook

\* the bytes handed to the peer engine for a message whose hook has returned
BadEffectiveData(data, hook) == data

EffectiveData(data, hook) == HookedContent(data, hook)

\* the end_stream flag handed to send_stream_data
BadForwardedEndStream(event, data) == event.end_stream /\ data # ""

ForwardedEndStream(event, data) == event.end_stream

QuicTransmit(peer) == [cmd |-> "QuicTransmit", connection |-> peer]

HandleDatagram(s, event, from_client, hook) ==
    LET peer == IF from_client THEN "server" ELSE "client" IN
    IF s.relay.flow # NoneRec
    THEN
      LET udp_message == [from_client |-> from_client, content |-> HookedContent(event.data, hook)]
          s1 == [s EXCEPT !.relay.flow.messages = Append(@, udp_message)]
          s2 == Yield(s1, <<[cmd |-> "UdpMessageHook"]>>)
          data == EffectiveData(event.data, hook)
      IN Yield(EngineCall(s2, peer, [call |-> "send_datagram_frame", data |-> data]),
               <<QuicTransmit(peer)>>)
    ELSE Yield(EngineCall(s, peer, [call |-> "send_datagram_frame", data |-> event.data]),
               <<QuicTransmit(peer)>>)

HandleStreamData(s, event, from_client, hook) ==
    LET peer == IF from_client THEN "server" ELSE "client"
        sid == event.stream_id
        s1 == get_or_create_stream(s, sid)
        stream == s1.relay.streams_by_id[sid]
    IN
    IF has_ended(stream, from_client)
    THEN Yield(s1, <<[cmd |-> "Log", message |-> "Received byte(s) on already closed stream"]>>)
    ELSE
      LET s2 == IF stream.flow # NoneRec
                THEN Yield([s1 EXCEPT !.relay.streams_by_id[sid].flow.messages =
                                Append(@, [from_client |-> from_client,
                                           content |-> HookedContent(event.data, hook)])],
                           <<[cmd |-> "TcpMessageHook", stream_id |-> sid,
                              live |-> stream.flow.live]>>)
                ELSE s1
          data == IF stream.flow # NoneRec THEN EffectiveData(event.data, hook) ELSE event.data
          s3 == EngineCall(s2, peer, [call |-> "send_stream_data", stream_id |-> sid,
                                      data |-> data, end_stream |-> ForwardedEndStream(event, data)])
          s4 == IF event.end_stream THEN mark_ended(s3, sid, from_client, None) ELSE s3
      IN IF s4.raised # None THEN s4 ELSE Yield(s4, <<QuicTransmit(peer)>>)

ResetCallWithoutCode(stream_id, error_code) ==
    [call |-> "reset_stream", stream_id |-> stream_id, error_code |-> 0]

\* peer_quic.reset_stream(stream.stream_id, event.error_code)
ResetCall(stream_id, error_code) ==
    [call |-> "reset_stream", stream_id |-> stream_id, error_code |-> error_code]

HandleStreamReset(s, event, from_client) ==
    LET peer == IF from_client THEN "server" ELSE "client"
        sid == event.stream_id
        s1 == get_or_create_stream(s, sid)
        stream == s1.relay.streams_by_id[sid]
    IN
    IF has_ended(stream, from_client)
    THEN Yield(s1, <<[cmd |-> "Log", message |-> "Received reset for already closed stream"]>>)
    ELSE
      LET s2 == EngineCall(s1, peer, ResetCall(sid, event.error_code))
          s3 == mark_ended(s2, sid, from_client, error_code_to_str(event.error_code))
      IN IF s3.raised # None THEN s3 ELSE Yield(s3, <<QuicTransmit(peer)>>)

\* the pending buffer with one more event
BadBufferAppend(buffer, event) == <<event>> \o buffer

BufferAppend(buffer, event) == Append(buffer, event)

handle_quic_event(s, event, from_client, hook) ==
    LET side == IF from_client THEN "client" ELSE "server"
        peer_quic == IF from_client THEN s.relay.quic_server ELSE s.relay.quic_client
    IN
    IF s.raised # None THEN s
    ELSE IF peer_quic = None
    THEN IF from_client
         THEN [s EXCEPT !.relay.buffer_from_client = BufferAppend(@, event)]
         ELSE [s EXCEPT !.relay.buffer_from_server = BufferAppend(@, event)]
    ELSE
      LET s0 == [s EXCEPT !.hist.handled[side] = Append(@, event)] IN
      CASE event.type = "DatagramFrameReceived" -> HandleDatagram(s0, event, from_client, hook)
        [] event.type = "StreamDataReceived" -> HandleStreamData(s0, event, from_client, hook)
        [] event.type = "StreamReset" -> HandleStreamReset(s0, event, from_client)
        [] OTHER -> Yield(s0, <<[cmd |-> "Log", message |-> "Ignored QUIC event"]>>)

\* the loop of state_ready that works off the peer's buffer after QuicStart
RECURSIVE FlushBuffer(_, _, _, _)
FlushBuffer(s, buffer, from_client, hooks) ==
    IF buffer = <<>> THEN s
    ELSE FlushBuffer(handle_quic_event(s, Head(buffer), from_client, Head(hooks)),
                     Tail(buffer), from_client, Tail(hooks))

NoCloseError == None

\* err="Connection closed."
ConnectionClosedError == "Connection closed."

\* state_done: the streams are visited in the order they were created
RECURSIVE EndStreams(_, _, _)
EndStreams(s, ids, from_client) ==
    IF ids = <<>> \/ s.raised # None THEN s
    ELSE LET stream == s.relay.streams_by_id[Head(ids)]
             s1 == IF ~has_ended(stream, from_client)
                   THEN mark_ended(s, Head(ids), from_client, ConnectionClosedError)
                   ELSE s
         IN EndStreams(s1, Tail(ids), from_client)

state_done_closed(s, from_client) ==
    LET s1 == EndStreams(s, s.relay.stream_order, from_client) IN
    IF s1.raised # None THEN s1
    ELSE IF s1.relay.flow # NoneRec /\ ~s1.conns.client.connected /\ ~s1.conns.server.connected
    THEN LET s2 == IF s1.relay.flow.error = None THEN Yield(s1, <<[cmd |-> "UdpEndHook"]>>) ELSE s1
         IN [s2 EXCEPT !.relay.flow.live = FALSE]
    ELSE s1

PeerCloseWithoutReason(close_event) ==
    [call |-> "close", error_code |-> close_event.error_code,
     frame_type |-> close_event.frame_type, reason_phrase |-> ""]

\* peer_quic.close(close_event.error_code, close_event.frame_type, close_event.reason_phrase)
PeerClose(close_event) ==
    [call |-> "close", error_code |-> close_event.error_code,
     frame_type |-> close_event.frame_type, reason_phrase |-> close_event.reason_phrase]

\* state_ready on ConnectionClosed; swallowed: a QuicLayer below intercepts the CloseConnection
state_ready_closed(s, from_client, swallowed) ==
    LET side == IF from_client THEN "client" ELSE "server"
        peer == IF from_client THEN "server" ELSE "client"
        peer_quic == IF from_client THEN s.relay.quic_server ELSE s.relay.quic_client
        closed_quic == IF from_client THEN s.relay.quic_client ELSE s.relay.quic_server
        close_event == IF closed_quic = None THEN NoneRec ELSE s.engines[side].close_event
        s1 == IF peer_quic # None /\ close_event # NoneRec
              THEN Yield([EngineCall(s, peer, PeerClose(close_event))
                              EXCEPT !.engines[peer].close_event =
                                  IF @ = NoneRec THEN close_event ELSE @],
                         <<QuicTransmit(peer)>>)
              ELSE Yield([s EXCEPT !.conns[peer].connected = IF swallowed THEN @ ELSE FALSE],
                         <<[cmd |-> "CloseConnection", connection |-> peer]>>)
        s2 == IF /\ s1.relay.flow # NoneRec
                 /\ close_event # NoneRec
                 /\ ~is_success_error_code(close_event.error_code)
              THEN Yield([s1 EXCEPT !.relay.flow.error =
                              IF close_event.reason_phrase # "" THEN close_event.reason_phrase
                              ELSE error_code_to_str(close_event.error_code)],
                         <<[cmd |-> "UdpErrorHook"]>>)
              ELSE s1
    IN state_done_closed([s2 EXCEPT !.relay.state = "done"], from_client)

\* state_ready on QuicStart
state_ready_quic_start(s, from_client, hooks) ==
    LET buffer_from_peer == IF from_client THEN s.relay.buffer_from_server
                            ELSE s.relay.buffer_from_client
        registered == IF from_client THEN s.relay.quic_client ELSE s.relay.quic_server
    IN
    IF registered # None THEN Raise(s, "AssertionError: QuicStart")
    ELSE
      LET s1 == IF from_client THEN [s EXCEPT !.relay.quic_client = "client"]
                ELSE [s EXCEPT !.relay.quic_server = "server"]
          s2 == FlushBuffer(s1, buffer_from_peer, ~from_client, hooks)
      IN IF s2.raised # None THEN s2
         ELSE IF from_client THEN [s2 EXCEPT !.relay.buffer_from_server = <<>>]
         ELSE [s2 EXCEPT !.relay.buffer_from_client = <<>>]

(***************************************************************************)
(* The aioquic connection of a QUIC layer, as far as the layer observes it.*)
(***************************************************************************)
LayerIds == {1, 2}
\* the local address of the UDP socket all flows arrive on
Sockname == "sock"
\* the peer address of the UDP flow a layer was created for
Peername(l) == IF l = 1 THEN "addr1" ELSE "addr2"
Addrs == {"addr1", "addr2", "addr3"}
\* a destination connection ID chosen by a client: no engine ever generates it
ClientCid == 0

ConnectionIdIssued(cid) == [type |-> "ConnectionIdIssued", connection_id |-> cid]
ConnectionIdRetired(cid) == [type |-> "ConnectionIdRetired", connection_id |-> cid]
HandshakeCompleted == [type |-> "HandshakeCompleted", alpn_protocol |-> "h3"]

NewEngine(host_cid) ==
    [ host_cid |-> host_cid,      \* QuicConnection.host_cid
      cids |-> {host_cid},        \* the host connection IDs the engine holds
      state |-> "FIRSTFLIGHT",    \* QuicConnection._state
      close_event |-> NoneRec,    \* QuicConnection._close_event
      events |-> <<>>,            \* the queue next_event() pops
      timer |-> <<>>,             \* <<t>> once get_timer() has returned the deadline t
      done |-> FALSE ]            \* HandshakeCompleted has been queued

\* the events an engine may queue next
EngineCandidates(eng, cid) ==
    IF eng.state = "TERMINATED"
    THEN {OtherQuicEvent} \cup (IF eng.done THEN {DatagramFrameReceived("ABC")} ELSE {})
    ELSE (IF cid < MaxCid THEN {ConnectionIdIssued(cid + 1)} ELSE {})
         \cup {ConnectionIdRetired(c) : c \in eng.cids}
         \cup (IF eng.done THEN {DatagramFrameReceived("ABC")} ELSE {HandshakeCompleted})
         \cup (IF eng.close_event # NoneRec THEN {eng.close_event}
               ELSE {e \in CloseEvents : e.error_code \in {0, 256}})
         \cup {OtherQuicEvent}

\* the engine's own bookkeeping when it queues an event
EngineQueues(eng, event) ==
    LET e1 == [eng EXCEPT !.events = Append(@, event)] IN
    CASE event.type = "ConnectionIdIssued" -> [e1 EXCEPT !.cids = @ \cup {event.connection_id}]
      [] event.type = "ConnectionIdRetired" -> [e1 EXCEPT !.cids = @ \ {event.connection_id}]
      [] event.type = "HandshakeCompleted" -> [e1 EXCEPT !.done = TRUE, !.state = "CONNECTED"]
      [] event.type = "ConnectionTerminated" ->
            [e1 EXCEPT !.state = "TERMINATED", !.close_event = event]
      [] OTHER -> e1

CidAfter(cid, event) == IF event.type = "ConnectionIdIssued" THEN event.connection_id ELSE cid

\* the batches of at most n events an engine may queue in one call
RECURSIVE EngineBatches(_, _, _)
EngineBatches(eng, cid, n) ==
    IF n = 0 THEN {<<>>}
    ELSE {<<>>} \cup UNION { { <<e>> \o b : b \in EngineBatches(EngineQueues(eng, e), CidAfter(cid, e), n - 1) }
                             : e \in EngineCandidates(eng, cid) }

RECURSIVE EngineQueuesAll(_, _)
EngineQueuesAll(eng, batch) ==
    IF batch = <<>> THEN eng ELSE EngineQueuesAll(EngineQueues(eng, Head(batch)), Tail(batch))

RECURSIVE CidAfterAll(_, _)
CidAfterAll(cid, batch) ==
    IF batch = <<>> THEN cid ELSE CidAfterAll(CidAfter(cid, Head(batch)), Tail(batch))

\* QuicConnection.close(): records the close event unless the connection is already closing
EngineClose(eng, error_code, frame_type, reason_phrase) ==
    IF eng.state \in {"CLOSING", "TERMINATED"} THEN eng
    ELSE [eng EXCEPT !.state = "CLOSING",
                     !.close_event = ConnectionTerminated(error_code, frame_type, reason_phrase)]

(***************************************************************************)
(* QuicLayer / ClientQuicLayer                                             *)
(***************************************************************************)
\* A handler's working state here: s.layers, s.connections, s.clock, s.lout, s.lhist,
\* s.raised, s.ret (the value the last generator returned) and s.inp (what the engine,
\* the child layer and the addons answer while the event is handled).
LYield(s, l, cmds) == [s EXCEPT !.lout = @ \o [i \in 1..Len(cmds) |-> [layer |-> l] @@ cmds[i]]]
Return(s, value) == [s EXCEPT !.ret = value]

Key(cid) == <<Sockname, cid>>

\* ClientQuicLayer.handle_connection_id_issued
handle_connection_id_issued(s, l, event) ==
    LET connection_id == Key(event.connection_id) IN
    IF connection_id \in DOMAIN s.connections
    THEN Raise(s, "AssertionError: connection_id in connections")
    ELSE [s EXCEPT !.connections = [k \in DOMAIN @ \cup {connection_id} |->
                                       IF k = connection_id THEN l ELSE @[k]]]

\* ClientQuicLayer.handle_connection_id_retired
handle_connection_id_retired(s, l, event) ==
    LET connection_id == Key(event.connection_id) IN
    IF connection_id \notin DOMAIN s.connections THEN Raise(s, "KeyError: connection_id")
    ELSE IF s.connections[connection_id] # l THEN Raise(s, "AssertionError: not the owner")
    ELSE [s EXCEPT !.connections = [k \in DOMAIN @ \ {connection_id} |-> @[k]]]

\* Calling a generator function only creates the generator: its body runs when the
\* generator is iterated. A generator that is dropped without being iterated changes nothing.
GeneratorNeverIterated(s, after_iteration) == s

\* if self.conn is self.context.client: the client hook, else the server hook
Hook(layer, client_hook, server_hook) ==
    IF layer.handler = "server" THEN server_hook ELSE client_hook

\* QuicLayer.handle_connection_terminated
DroppedEngineAndTls(layer) == [layer EXCEPT !.quic = None, !.tls = None]

\* "clear only quic, tls will indicate we already did `start_tls`": self.quic = None
DroppedEngine(layer) == [layer EXCEPT !.quic = None]

handle_connection_terminated(s, l, event) ==
    LET layer == s.layers[l] IN
    IF layer.quic = None \/ layer.tls = None \/ layer.engine.state # "TERMINATED"
    THEN Raise(s, "AssertionError: handle_connection_terminated")
    ELSE
      LET reason == IF event.reason_phrase # "" THEN event.reason_phrase
                    ELSE error_code_to_str(event.error_code)
          s1 == IF ~layer.conn.tls_established
                THEN LYield([s EXCEPT !.layers[l].conn.error = reason], l,
                            <<[cmd |-> Hook(layer, "TlsFailedClientHook", "TlsFailedServerHook")]>>)
                ELSE s
          s2 == [s1 EXCEPT !.layers[l] = DroppedEngine(@)]
      IN LYield(s2, l, <<[cmd |-> "Log", message |-> "QUIC connection destroyed"]>>)

\* QuicLayer.handle_handshake_completed
handle_handshake_completed(s, l, event) ==
    LET layer == s.layers[l] IN
    IF layer.quic = None \/ layer.tls = None \/ layer.conn.tls_established
    THEN Raise(s, "AssertionError: handle_handshake_completed")
    ELSE LYield([s EXCEPT !.layers[l].conn.tls_established = TRUE,
                          !.layers[l].conn.alpn = event.alpn_protocol,
                          !.layers[l].conn.tls_version = "QUIC"],
                l, << [cmd |-> Hook(layer, "TlsEstablishedClientHook", "TlsEstablishedServerHook"),
                       tls_version |-> "QUIC",
                       alpn |-> event.alpn_protocol],
                      [cmd |-> "Log", message |-> "QUIC connection established."] >>)

\* the test of transmit() that decides whether a new wakeup is requested
BadNeedsWakeup(wakeup_commands, timer) ==
    ~\E i \in DOMAIN wakeup_commands : wakeup_commands[i] < timer

AlwaysNeedsWakeup(wakeup_commands, timer) == TRUE

NeedsWakeupWhenNoneOutstanding(wakeup_commands, timer) == wakeup_commands = <<>>

NeedsWakeup(wakeup_commands, timer) ==
    ~\E i \in DOMAIN wakeup_commands : wakeup_commands[i] <= timer

\* the loop of transmit() over datagrams_to_send()
RECURSIVE SendDatagrams(_, _, _)
SendDatagrams(s, l, addrs) ==
    IF addrs = <<>> THEN s
    ELSE LET addr == Head(addrs)
             layer == s.layers[l]
             cmd == IF addr = layer.conn.peername THEN [cmd |-> "SendData", connection |-> l]
                    ELSE IF addr \in DOMAIN layer.routes
                    THEN [cmd |-> "writer.write", handler |-> layer.routes[addr]]
                    ELSE [cmd |-> "Log", message |-> "No route"]
         IN SendDatagrams(LYield(s, l, <<cmd>>), l, Tail(addrs))

\* QuicLayer.transmit
transmit(s, l) ==
    LET layer == s.layers[l] IN
    IF layer.quic = None THEN Raise(s, "AssertionError: transmit")
    ELSE
      LET timer == Head(s.inp.timers)
          wakeup_commands == Append(layer.wakeup_commands, timer)
          alone == Cardinality({i \in DOMAIN wakeup_commands : wakeup_commands[i] <= timer}) = 1
          Request(s2) ==
              IF NeedsWakeup(layer.wakeup_commands, timer)
              THEN LYield([s2 EXCEPT !.layers[l].wakeup_commands = wakeup_commands,
                                     !.lhist.requests = Append(@, [layer |-> l, alone |-> alone])],
                          l, <<[cmd |-> "RequestWakeup", delay |-> timer - s.clock.time]>>)
              ELSE s2
      IN Request([SendDatagrams(s, l, s.inp.pkts)
                    EXCEPT !.inp.pkts = <<>>,
                           !.inp.timers = IF Len(@) > 1 THEN Tail(@) ELSE @,
                           !.layers[l].engine.timer = <<timer>>,
                           !.lhist.timers = Append(@, timer)])

QuicStartEvent == [type |-> "QuicStart"]
QuicConnectionEvent(event) == [type |-> "QuicConnectionEvent", event |-> event]
DataReceived(datagram) == [type |-> "DataReceived", datagram |-> datagram]
ConnectionClosed == [type |-> "ConnectionClosed"]
Wakeup(i) == [type |-> "Wakeup", command |-> i]
\* events.MessageInjected(flow, message) for a flow of the roaming layer's target
MessageInjected == [type |-> "MessageInjected"]
\* an event that is not for the layer's own connection
ForeignEvent == [type |-> "DataReceived", connection |-> "server"]
\* an event of the client connection as a server layer sees it
ClientEvent == [type |-> "DataReceived", connection |-> "client"]
\* events.OpenConnectionCompleted(command, err); by: the server layer or the runtime replies
OpenConnectionCompleted(err, by) == [type |-> "OpenConnectionCompleted", err |-> err, by |-> by]

\* QuicLayer.process_events and QuicLayer.event_to_child call each other
RECURSIVE process_events(_, _)
RECURSIVE event_to_child(_, _, _)
RECURSIVE FilterCommands(_, _, _)
RECURSIVE ServerOpenConnection(_, _)

AlwaysForwards(layer) == TRUE

\* "if self.quic is None: yield command": without QUIC simply close the connection
ForwardsClose(layer) == layer.quic = None

\* the loop of event_to_child over the commands of the child layer; history: the commands
\* of the child other than QuicTransmit
FilterCommands(s0, l, cmds) ==
    IF cmds = <<>> \/ s0.raised # None THEN s0
    ELSE
      LET command == Head(cmds)
          layer == s0.layers[l]
          s == IF command = "QuicTransmit" THEN s0
               ELSE [s0 EXCEPT !.lhist.commands =
                         Append(@, [layer |-> l, command |-> command, at |-> Len(s0.lout),
                                    engine |-> layer.quic # None])]
          s1 == CASE command = "QuicTransmit" ->
                       IF layer.quic # None THEN transmit(s, l) ELSE s
                  [] command = "CloseConnection" ->
                       IF ForwardsClose(layer)
                       THEN LYield([s EXCEPT !.layers[l].conn.connected = FALSE], l,
                                   <<[cmd |-> "CloseConnection", connection |-> l]>>)
                       ELSE process_events(
                              [s EXCEPT !.layers[l].engine =
                                   EngineClose(@, 0, None, "CloseConnection command received.")], l)
                  [] command = "OpenConnection" -> ServerOpenConnection(s, l)
                  [] OTHER -> LYield(s, l, <<[cmd |-> command]>>)
      IN FilterCommands(s1, l, Tail(cmds))

\* A child that has yielded OpenConnection is paused until it is handed the
\* OpenConnectionCompleted: it queues every other event and yields nothing for it.
event_to_child(s, l, event) ==
    IF s.raised # None THEN s
    ELSE LET Deliver(completed, paused, head) ==
                 FilterCommands(
                     [s EXCEPT !.lhist.child = Append(@, [layer |-> l, event |-> event]),
                               !.lhist.child_at = Append(@, Len(s.lout)),
                               !.layers[l].child_paused = IF completed THEN FALSE ELSE @,
                               !.inp.resp = IF @ = <<>> \/ (paused /\ head # <<>>)
                                            THEN @ ELSE Tail(@)],
                     l, IF paused THEN <<>> ELSE head)
         IN Deliver(event.type = "OpenConnectionCompleted",
                    s.layers[l].child_paused /\ event.type # "OpenConnectionCompleted",
                    IF s.inp.resp = <<>> THEN <<>> ELSE Head(s.inp.resp))

KeepOpenCommand(open_command) == open_command

\* self._open_command = None
ForgetOpenCommand(open_command) == None

\* ServerQuicLayer.handle_handshake_completed
ServerHandshakeCompleted(s, l, event) ==
    LET Notify(s1) ==
            IF s1.raised # None \/ s1.layers[l].open_command = None THEN s1
            ELSE event_to_child([s1 EXCEPT !.layers[l].open_command = ForgetOpenCommand(@)],
                                l, OpenConnectionCompleted(None, "layer"))
    IN Notify(handle_handshake_completed(s, l, event))

QuicStartBeforeEstablished(s, l, event) ==
    handle_handshake_completed(event_to_child(s, l, QuicStartEvent), l, event)

\* process_events on HandshakeCompleted: handle_handshake_completed, then QuicStart to the child
on_handshake_completed(s, l, event) ==
    event_to_child(IF s.layers[l].handler = "server"
                   THEN ServerHandshakeCompleted(s, l, event)
                   ELSE handle_handshake_completed(s, l, event), l, QuicStartEvent)

\* QuicLayer.handle_connection_id_issued and handle_connection_id_retired do nothing;
\* ClientQuicLayer overrides them
on_connection_id(s, l, event) ==
    IF s.layers[l].handler = "server" THEN s
    ELSE IF event.type = "ConnectionIdIssued" THEN handle_connection_id_issued(s, l, event)
    ELSE handle_connection_id_retired(s, l, event)

NewestEvent(events) == events[Len(events)]

\* event = self.quic.next_event(): the oldest event of the engine's queue
next_event(events) == Head(events)

process_events(s, l) ==
    IF s.raised # None THEN s
    ELSE IF s.layers[l].quic = None THEN Raise(s, "AttributeError: quic is None")
    ELSE IF s.layers[l].engine.events = <<>> THEN transmit(s, l)
    ELSE
      LET event == next_event(s.layers[l].engine.events)
          s0 == [s EXCEPT !.layers[l].engine.events = Tail(@),
                          !.lhist.drained = Append(@, event)]
      IN
      CASE event.type \in {"ConnectionIdIssued", "ConnectionIdRetired"} ->
             process_events(on_connection_id(s0, l, event), l)
        [] event.type = "ConnectionTerminated" ->
             LET AlsoClose(s1) ==
                     IF s1.raised = None /\ s1.layers[l].conn.connected
                     THEN LYield([s1 EXCEPT !.layers[l].conn.connected = FALSE], l,
                                 <<[cmd |-> "CloseConnection", connection |-> l]>>)
                     ELSE s1
                 \* history: what the handler had done when the drain stopped
                 Stopped(s1) ==
                     [s1 EXCEPT !.lhist.stopped =
                          Append(@, [layer |-> l, connected |-> s1.layers[l].conn.connected,
                                     at |-> Len(s1.lout), child |-> Len(s1.lhist.child),
                                     transmits |-> Len(s1.lhist.timers),
                                     drained |-> Len(s1.lhist.drained)])]
             IN AlsoClose(Stopped(handle_connection_terminated(s0, l, event)))
        [] event.type = "HandshakeCompleted" ->
             process_events(on_handshake_completed(s0, l, event), l)
        [] event.type = "PingAcknowledged" -> process_events(s0, l)
        [] event.type \in {"DatagramFrameReceived", "StreamDataReceived", "StreamReset"} ->
             IF ~s0.layers[l].conn.tls_established
             THEN Raise(s0, "AssertionError: must be post-handshake event")
             ELSE process_events(event_to_child(s0, l, QuicConnectionEvent(event)), l)
        [] OTHER -> Raise(s0, "AssertionError: Unexpected event")

\* QuicLayer.start_tls; s.inp.settings is what the QuicTlsStartClientHook left in tls_data.settings
start_tls(s, l, original_destination_connection_id) ==
    IF s.layers[l].quic # None \/ s.layers[l].tls # None
    THEN Raise(s, "AssertionError: start_tls")
    ELSE
      LET s1 == LYield(s, l, <<[cmd |-> Hook(s.layers[l], "QuicTlsStartClientHook",
                                                 "QuicTlsStartServerHook")]>>) IN
      IF s.inp.settings = None
      THEN Return(LYield(s1, l, <<[cmd |-> "Log", message |-> "No QUIC TLS settings provided by addon(s)."]>>),
                  FALSE)
      ELSE
        LET host_cid == s.clock.cid + 1
            s2 == [s1 EXCEPT !.layers[l].tls = s.inp.settings,
                             !.layers[l].quic = "quic",
                             !.layers[l].engine = NewEngine(host_cid),
                             !.clock.cid = host_cid]
            Created(s3) ==
                LYield([s3 EXCEPT !.lhist.started =
                            [layer |-> l, host_cid |-> host_cid, connections |-> s3.connections]],
                       l, <<[cmd |-> "Log", message |-> "QUIC connection created."]>>)
        IN Return(Created(GeneratorNeverIterated(
                              s2, handle_connection_id_issued(s2, l, ConnectionIdIssued(host_cid)))),
                  TRUE)

(***************************************************************************)
(* ServerQuicLayer                                                         *)
(***************************************************************************)
\* The loop body of ServerQuicLayer.event_to_child for an OpenConnection(server) of the
\* child; s.inp.open_err is what the runtime answers to the layer's own OpenConnection.
\* A QUIC layer of the client connection passes the command on.
ServerOpenConnection(s, l) ==
    LET layer == s.layers[l]
        open == [cmd |-> "OpenConnection", connection |-> "server"]
        s1 == [s EXCEPT !.layers[l].child_paused = TRUE]
        Opened(s3) ==
            IF s3.raised # None THEN s3
            ELSE IF ~s3.ret
            THEN LYield([s3 EXCEPT !.layers[l].conn.connected = FALSE], l,
                        <<[cmd |-> "CloseConnection", connection |-> l]>>)
            ELSE process_events(s3, l)
        Captured(s2) ==
            IF s.inp.open_err # None
            THEN event_to_child([s2 EXCEPT !.layers[l].open_command = ForgetOpenCommand(@)],
                                l, OpenConnectionCompleted(s.inp.open_err, "layer"))
            ELSE Opened(start_tls([s2 EXCEPT !.layers[l].conn.connected = TRUE,
                                             !.layers[l].conn.closed = FALSE], l, None))
    IN
    IF layer.handler # "server" \/ layer.tls # None
    THEN LYield([s1 EXCEPT !.layers[l].runtime_open = TRUE], l, <<open>>)
    ELSE IF layer.open_command # None THEN Raise(s1, "AssertionError: _open_command")
    ELSE Captured(LYield([s1 EXCEPT !.layers[l].open_command = "OpenConnection",
                                    !.lhist.opened = Append(@, [at |-> Len(s1.lout) + 1,
                                                                err |-> s.inp.open_err])],
                         l, <<open>>))

(***************************************************************************)
(* The first datagram of a flow: ClientQuicLayer.datagram_received         *)
(***************************************************************************)
\* aioquic's QuicProtocolVersion in definition order; the draft versions 0xff00001d and
\* 0xff00001e are written 29 and 30
NEGOTIATION == 0
QuicProtocolVersion == <<NEGOTIATION, 1, 29, 30>>
\* a version no QuicProtocolVersion member has (0xff000001 in the wire format)
UnknownVersion == 99

\* a Python generator: the items it will still yield are those after pos
RECURSIVE Filtered(_)
Filtered(versions) ==
    IF versions = <<>> THEN <<>>
    ELSE (IF Head(versions) # NEGOTIATION THEN <<Head(versions)>> ELSE <<>>) \o Filtered(Tail(versions))

\* supported_versions = (version.value for version in QuicProtocolVersion if ... is not NEGOTIATION)
SupportedVersions == [items |-> Filtered(QuicProtocolVersion), pos |-> 0]

\* "x in generator" pulls items until one equals x or the generator is exhausted
GeneratorContains(gen, x) ==
    LET hits == {i \in (gen.pos + 1)..Len(gen.items) : gen.items[i] = x} IN
    IF hits = {} THEN [found |-> FALSE, gen |-> [gen EXCEPT !.pos = Len(gen.items)]]
    ELSE [found |-> TRUE,
          gen |-> [gen EXCEPT !.pos = CHOOSE i \in hits : \A j \in hits : i <= j]]

\* iterating a generator yields what it has not yielded yet
GeneratorItems(gen) == SubSeq(gen.items, gen.pos + 1, Len(gen.items))

encode_quic_version_negotiation(source_cid, destination_cid, supported_versions) ==
    [ type |-> "VersionNegotiation", source_cid |-> source_cid,
      destination_cid |-> destination_cid,
      supported_versions |-> GeneratorItems(supported_versions) ]

\* Datagrams as pull_quic_header and quic_parse_client_hello see them. version is <<>> for
\* a short header (header.version is None) and <<v>> for a long header.
Datagram(valid, version, dcid, packet_type, length, hello) ==
    [ valid |-> valid, version |-> version, destination_cid |-> dcid, source_cid |-> 7,
      packet_type |-> packet_type, length |-> length, hello |-> hello ]

Datagrams ==
    {Datagram(FALSE, <<>>, ClientCid, None, 1200, FALSE)}
    \cup UNION { { Datagram(TRUE, <<>>, c, "SHORT", 1200, FALSE),
                   Datagram(TRUE, <<NEGOTIATION>>, c, None, 1200, FALSE),
                   Datagram(TRUE, <<29>>, c, "INITIAL", 1200, TRUE) }
                 \cup { Datagram(TRUE, <<v>>, c, "INITIAL", 1199, TRUE) : v \in {1, UnknownVersion} }
                 \cup { Datagram(TRUE, <<v>>, c, "INITIAL", 1200, h) : v \in {1, UnknownVersion}, h \in BOOLEAN }
                 \cup { Datagram(TRUE, <<v>>, c, "HANDSHAKE", 1200, FALSE) : v \in {1, UnknownVersion} }
                 : c \in 0..MaxCid }

RECURSIVE Dispatch(_, _, _)

KeepsPeername(target_peername, peername) == target_peername

\* handler.client.peername = self.context.client.peername
RoamedPeername(target_peername, peername) == peername

\* self._routes[context.client.peername] = context.handler
add_route(routes, peername, l) ==
    [a \in DOMAIN routes \cup {peername} |-> IF a = peername THEN l ELSE routes[a]]

KeepRoute(routes, peername) == routes

\* del self._routes[context.client.peername]
remove_route(routes, peername) == [a \in DOMAIN routes \ {peername} |-> routes[a]]

\* QuicRoamingLayer.state_closed: the event is dropped
state_closed(s, event) == s

\* QuicRoamingLayer.state_start, state_relay and state_closed
RoamingHandleEvent(s, l, event) ==
    LET roaming == s.layers[l].roaming
        target == roaming.target
        peername == s.layers[l].conn.peername
    IN
    CASE roaming.state = "start" ->
           IF event.type # "Start" THEN Raise(s, "AssertionError: Unexpected event type")
           ELSE IF peername \in DOMAIN s.layers[target].routes
           THEN Raise(s, "AssertionError: add_route")
           ELSE [s EXCEPT !.layers[target].routes = add_route(@, peername, l),
                          !.layers[l].roaming.state = "relay"]
      [] roaming.state = "relay" ->
           CASE event.type = "ConnectionClosed" ->
                  IF peername \notin DOMAIN s.layers[target].routes
                  THEN Raise(s, "KeyError: remove_route")
                  ELSE IF s.layers[target].routes[peername] # l
                  THEN Raise(s, "AssertionError: remove_route")
                  ELSE [s EXCEPT !.layers[target].routes = remove_route(@, peername),
                                 !.layers[l].roaming.state = "closed"]
             [] event.type \in {"DataReceived", "MessageInjected"} ->
                  \* handler.server_event(event); DataReceived also updates the target's peername
                  Dispatch([s EXCEPT !.layers[target].conn.peername =
                                         IF event.type = "DataReceived"
                                         THEN RoamedPeername(@, peername) ELSE @,
                                     !.lhist.roamed = Append(@, [target |-> target, event |-> event])],
                           target, event)
             [] OTHER -> Raise(s, "AssertionError: Unexpected event")
      [] OTHER -> state_closed(s, event)

\* ClientQuicLayer.replace_layer; an UDPLayer(ignore=True) is a sink for the events it gets
replace_layer(s, l, replacement, target, first_data_event) ==
    LET s1 == [s EXCEPT !.layers[l].handler = replacement,
                        !.layers[l].roaming = [state |-> "start", target |-> target]]
    IN Return(Dispatch(Dispatch(s1, l, [type |-> "Start"]), l, first_data_event), None)

ShortAndNotInitial(header) == header.length < 1200 /\ header.packet_type # "INITIAL"

\* len(event.data) < 1200 or header.packet_type != PACKET_TYPE_INITIAL
InvalidHandshake(header) == header.length < 1200 \/ header.packet_type # "INITIAL"

IgnoreNeverRequested(inp) == FALSE

\* if hook_data.ignore_connection
IgnoreRequested(inp) == inp.ignore_connection

\* ClientQuicLayer.start_client_tls; s.inp holds what the TlsClienthelloHook and the
\* runtime's OpenConnection answer
start_client_tls(s, l, event) ==
    LET header == event.datagram IN
    IF InvalidHandshake(header)
    THEN Return(s, "Invalid handshake received.")
    ELSE IF ~header.hello THEN Return(s, "Cannot parse ClientHello")
    ELSE
      LET hello == <<[cmd |-> "TlsClienthelloHook", sni |-> "example.com",
                      alpn_protocols |-> <<"h3">>]>>
          open == <<[cmd |-> "OpenConnection", connection |-> "server"]>>
          unable == <<[cmd |-> "Log", message |-> "Unable to establish QUIC connection with server"]>>
          s2 == LYield([s EXCEPT !.layers[l].conn.sni = "example.com",
                                 !.layers[l].conn.alpn_offers = <<"h3">>,
                                 !.lhist.answers =
                                     [ignore_connection |-> s.inp.ignore_connection,
                                      establish_server_tls_first |-> s.inp.establish_server_tls_first]],
                       l, hello)
          Result(s4) ==
              IF s4.raised # None THEN s4
              ELSE IF ~s4.ret THEN Return(s4, "TLS initialization failed.")
              ELSE Return(s4, None)
          \* "if tls_clienthello.establish_server_tls_first and not self.context.server.tls_established"
          ServerFirst ==
              IF ~(s.inp.establish_server_tls_first /\ ~s.layers[l].server_tls_established)
              THEN s2
              ELSE IF ~s.layers[l].server_layer THEN LYield(s2, l, unable)
              ELSE IF s.inp.open_err # None THEN LYield(s2, l, open \o unable)
              ELSE [LYield(s2, l, open) EXCEPT !.layers[l].server_tls_established = TRUE]
      IN
      IF IgnoreRequested(s.inp) THEN replace_layer(s2, l, "udp", l, event)
      ELSE Result(start_tls(ServerFirst, l, header.destination_cid))

RoamsAlways(layer) == TRUE

\* self._can_roam
CanRoam(layer) == layer.can_roam

\* ClientQuicLayer.datagram_received
datagram_received(s, l, event) ==
    LET header == event.datagram IN
    IF ~header.valid THEN Return(s, "Invalid QUIC datagram received.")
    ELSE
      LET supported_versions == SupportedVersions
          test == IF header.version # <<>>
                  THEN GeneratorContains(supported_versions, header.version[1])
                  ELSE [found |-> TRUE, gen |-> supported_versions]
      IN
      IF header.version # <<>> /\ ~test.found
      THEN Return(LYield(s, l, <<[cmd |-> "SendData", connection |-> l,
                                  data |-> encode_quic_version_negotiation(
                                              header.destination_cid, header.source_cid, test.gen)]>>),
                  None)
      ELSE
        IF Key(header.destination_cid) \notin DOMAIN s.connections
        THEN start_client_tls(s, l, event)
        ELSE IF ~CanRoam(s.layers[l]) THEN Return(s, "Connection cannot roam.")
        ELSE replace_layer(s, l, "roaming", s.connections[Key(header.destination_cid)], event)

\* QuicLayer._handle_event; s.inp.batch is what the engine queues when it is fed
QuicLayerHandleEvent(s, l, event) ==
    LET layer == s.layers[l]
        received == event.type = "DataReceived" /\ "datagram" \in DOMAIN event /\ layer.quic # None
        closed == event.type = "ConnectionClosed" /\ layer.quic # None
        wakeup == event.type = "Wakeup" /\ event.command \in DOMAIN layer.wakeup_commands
        \* timer = self._wakeup_commands.pop(event.command)
        popped == IF ~wakeup THEN s
                  ELSE [s EXCEPT !.layers[l].wakeup_commands =
                            SubSeq(@, 1, event.command - 1) \o SubSeq(@, event.command + 1, Len(@))]
        \* self.quic.receive_datagram or self.quic.handle_timer
        fed == [popped EXCEPT !.layers[l].engine = EngineQueuesAll(@, s.inp.batch),
                              !.clock.cid = CidAfterAll(@, s.inp.batch),
                              !.lhist.fed = Append(@, l),
                              !.lhist.queued = EngineQueuesAll(s.layers[l].engine, s.inp.batch).events]
        close_event == IF layer.engine.close_event = NoneRec
                       THEN ConnectionTerminated(12, None, "UDP connection closed or timed out.")
                       ELSE layer.engine.close_event
        terminated == [s EXCEPT !.layers[l].engine.state = "TERMINATED",
                                !.layers[l].engine.close_event = close_event]
    IN
    IF received \/ (wakeup /\ layer.quic # None) THEN process_events(fed, l)
    ELSE IF wakeup THEN popped
    ELSE event_to_child(IF closed THEN handle_connection_terminated(terminated, l, close_event)
                        ELSE s, l, event)

\* ClientQuicLayer._handle_event
ClientHandleEvent(s, l, event) ==
    LET \* "if isinstance(event, events.DataReceived) and self.tls is None"
        first == event.type = "DataReceived" /\ "datagram" \in DOMAIN event /\ s.layers[l].tls = None
        Recorded(s1) == [s1 EXCEPT !.lhist.result = Append(@, [layer |-> l, err |-> s1.ret])]
        After(s1) ==
            IF first /\ s1.raised # None THEN s1
            ELSE IF first /\ s1.ret # None
            THEN LYield(Recorded(s1), l, <<[cmd |-> "Log", message |-> s1.ret]>>)
            ELSE QuicLayerHandleEvent(IF first THEN Recorded(s1) ELSE s1, l, event)
    IN After(IF first THEN datagram_received([s EXCEPT !.lhist.first = Append(@, l)], l, event)
             ELSE s)

\* ServerQuicLayer._handle_event
ServerHandleEvent(s, l, event) ==
    LET layer == s.layers[l] IN
    IF event.type = "ConnectionClosed" /\ layer.open_command # None
    THEN event_to_child([s EXCEPT !.layers[l].open_command = ForgetOpenCommand(@)], l,
                        OpenConnectionCompleted(IF layer.tls = None
                                                THEN "TLS initialization failed"
                                                ELSE "Connection closed before connect", "layer"))
    ELSE QuicLayerHandleEvent(s, l, event)

\* the handle_event a flow's events reach: the layer's own, or that of its replacement
Dispatch(s, l, event) ==
    IF s.raised # None THEN s
    ELSE CASE s.layers[l].handler = "quic" -> ClientHandleEvent(s, l, event)
           [] s.layers[l].handler = "server" -> ServerHandleEvent(s, l, event)
           [] s.layers[l].handler = "roaming" -> RoamingHandleEvent(s, l, event)
           [] OTHER -> [s EXCEPT !.lhist.udp = Append(@, [layer |-> l, event |-> event])]

(***************************************************************************)
(* The QUIC layers as a state machine.                                     *)
(***************************************************************************)
NewLayer(l, can_roam, server_layer) ==
    [ handler |-> "quic",                 \* what the flow's handle_event is bound to
      roaming |-> [state |-> "start", target |-> l],
      can_roam |-> can_roam,              \* ClientQuicLayer._can_roam
      server_layer |-> server_layer,      \* ClientQuicLayer._server_layer is not None
      server_tls_established |-> FALSE,   \* context.server.tls_established
      quic |-> None,                      \* QuicLayer.quic
      tls |-> None,                       \* QuicLayer.tls
      engine |-> NewEngine(0),            \* the QuicConnection once quic is set
      open_command |-> None,              \* ServerQuicLayer._open_command
      child_paused |-> FALSE,             \* the child awaits an OpenConnectionCompleted
      runtime_open |-> FALSE,             \* the runtime has an OpenConnection of the child to answer
      wakeup_commands |-> <<>>,           \* QuicLayer._wakeup_commands: deadlines in request order
      routes |-> <<>>,                    \* QuicLayer._routes
      conn |-> [ peername |-> Peername(l), sni |-> None, alpn_offers |-> <<>>,
                 alpn |-> None, tls_version |-> None, tls_established |-> FALSE,
                 error |-> None, connected |-> TRUE, closed |-> FALSE ] ]

NewHistory(kind, l, datagram) ==
    [ last |-> [kind |-> kind, layer |-> l, datagram |-> datagram],
      first |-> <<>>,       \* layers whose datagram_received ran
      result |-> <<>>,      \* what datagram_received returned
      started |-> NoneRec,  \* the connection-ID table when start_tls returned True
      fed |-> <<>>,         \* layers whose engine was fed a datagram or a timer
      queued |-> <<>>,      \* the engine's queue when it had been fed
      drained |-> <<>>,     \* engine events process_events took from the queue
      stopped |-> <<>>,     \* the drains that a ConnectionTerminated stopped
      child |-> <<>>,       \* events handed to a child layer
      child_at |-> <<>>,    \* for each of them, the number of commands yielded before it
      commands |-> <<>>,    \* the commands the child yielded, QuicTransmit left out
      answers |-> NoneRec,  \* what the TlsClienthelloHook left in hook_data
      opened |-> <<>>,      \* the OpenConnection commands a server layer captured
      roamed |-> <<>>,      \* events a roaming layer handed to its target
      udp |-> <<>>,         \* events handed to a pass-through UDP layer
      timers |-> <<>>,      \* what get_timer() returned to transmit()
      requests |-> <<>> ]   \* wakeups transmit() requested

\* flow 1 belongs to a listener without roaming, flow 2 to one with roaming
InitLayers ==
    /\ layers = [l \in LayerIds |-> NewLayer(l, l = 2, TRUE)]
    /\ connections = <<>>
    /\ clock = [time |-> 0, cid |-> 0]
    /\ lout = <<>>
    /\ lhist = NewHistory("Init", 0, NoneRec)

DefaultAnswers ==
    [settings |-> "settings", ignore_connection |-> FALSE,
     establish_server_tls_first |-> FALSE, open_err |-> None]

\* what the TlsClienthelloHook, the runtime's OpenConnection and the QuicTlsStartClientHook answer
HookAnswers ==
    { [settings |-> "settings", ignore_connection |-> TRUE,
       establish_server_tls_first |-> FALSE, open_err |-> None] }
    \cup { [settings |-> st, ignore_connection |-> FALSE,
            establish_server_tls_first |-> FALSE, open_err |-> None] : st \in {None, "settings"} }
    \cup { [settings |-> st, ignore_connection |-> FALSE,
            establish_server_tls_first |-> TRUE, open_err |-> e]
           : st \in {None, "settings"}, e \in {None, "connection refused"} }

\* what a child layer may yield for one event: nothing, a QuicTransmit or a CloseConnection
\* for the layer's own connection
ChildResponses == {<<>>, <<"QuicTransmit">>, <<"CloseConnection">>}

\* the child's answers to the first n events of a handler, at most one of them a command
ResponseSeqs(responses, n) ==
    {<<>>} \cup { [i \in 1..k |-> IF i = k THEN r ELSE <<>>]
                  : k \in 1..n, r \in responses \ {<<>>} }

\* commands.CloseConnection(self.context.server) of the child of a client layer
CloseServer == "CloseConnection(server)"

\* the child of a client layer may also close the server connection
ClientChildResponses == ChildResponses \cup {<<CloseServer>>}

Input(answers, batch, resp, timers, pkts) ==
    [ settings |-> answers.settings, ignore_connection |-> answers.ignore_connection,
      establish_server_tls_first |-> answers.establish_server_tls_first,
      open_err |-> answers.open_err, batch |-> batch, resp |-> resp,
      timers |-> timers, pkts |-> pkts ]

LWorking(kind, l, datagram, inp, before) ==
    [ layers |-> before, connections |-> connections, clock |-> clock, lout |-> <<>>,
      lhist |-> NewHistory(kind, l, datagram), raised |-> None, ret |-> None, inp |-> inp ]

LCommit(s) ==
    /\ s.clock.cid <= MaxCid
    /\ layers' = s.layers
    /\ connections' = s.connections
    /\ clock' = s.clock
    /\ lout' = s.lout
    /\ lhist' = s.lhist
    /\ raised' = s.raised
    /\ UNCHANGED relayVars

RECURSIVE Inputs(_, _, _, _, _, _, _, _, _)
RECURSIVE SeqsOfLength(_, _)
SeqsOfLength(S, n) ==
    IF n = 0 THEN {<<>>} ELSE {<<x>> \o rest : x \in S, rest \in SeqsOfLength(S, n - 1)}

\* One event on flow l, the layers being as in before when it arrives. The answers of the
\* addons, the engine and the child layer are chosen among those the handler of this event
\* asks for: a run of the handler shows whether the hooks are asked, which engine is fed,
\* how many events the child is handed and how often the engine's timer is read.
\* The inputs of one run of a handler, chosen in four stages: what the addons answer, what
\* the engine queues, what the child yields and what the engine's timer returns.  The run
\* with the inputs chosen so far shows what the next stage is asked for.
Inputs(stage, w0, l, event, scope, before, answers, batch, resp) ==
    LET \* scope.cids: the engine may issue further connection IDs
        Issued(cid) == IF scope.cids THEN cid ELSE MaxCid
        Fed(f) == IF before[f].quic # None
                  THEN EngineBatches(before[f].engine, Issued(clock.cid), scope.batch)
                  ELSE EngineBatches(NewEngine(clock.cid + 1), Issued(clock.cid + 1), scope.batch)
        Chosen(p) ==
            CASE stage = 0 ->
                   UNION { Inputs(1, w0, l, event, scope, before, a, batch, resp)
                           : a \in IF \E i \in DOMAIN p.lout : p.lout[i].cmd = "TlsClienthelloHook"
                                   THEN scope.answers ELSE {DefaultAnswers} }
              [] stage = 1 ->
                   UNION { Inputs(2, w0, l, event, scope, before, answers, b, resp)
                           : b \in IF p.lhist.fed = <<>> THEN {<<>>} ELSE Fed(p.lhist.fed[1]) }
              [] stage = 2 ->
                   UNION { Inputs(3, w0, l, event, scope, before, answers, batch, r)
                           : r \in ResponseSeqs(scope.responses, Len(p.lhist.child)) }
              [] OTHER ->
                   { Input(answers, batch, resp, timers, pkts)
                     : timers \in IF p.lhist.timers = <<>> THEN {<<MaxTime>>}
                                  ELSE SeqsOfLength(scope.times, Len(p.lhist.timers)),
                       pkts \in IF p.lhist.timers = <<>> THEN {<<>>} ELSE scope.pkts }
    IN Chosen(Dispatch([w0 EXCEPT !.inp = Input(answers, batch, resp, <<MaxTime>>, <<>>)], l, event))

Handle(kind, l, datagram, event, scope, before) ==
    \E inp \in Inputs(0, LWorking(kind, l, datagram, Input(DefaultAnswers, <<>>, <<>>, <<MaxTime>>, <<>>),
                                  before),
                      l, event, scope, before, DefaultAnswers, <<>>, <<>>) :
      LCommit(Dispatch(LWorking(kind, l, datagram, inp, before), l, event))

\* the datagrams that can be the first of a flow: every kind of header with the client's
\* connection ID and, for each connection ID in the table, a short-header packet, an
\* Initial of a supported version and an Initial of an unknown version
FirstDatagrams ==
    { d \in Datagrams : \/ d.destination_cid = ClientCid
                        \/ /\ Key(d.destination_cid) \in DOMAIN connections
                           /\ \/ d.packet_type = "SHORT"
                              \/ d.packet_type = "INITIAL" /\ d.length = 1200 /\ d.hello
                                   /\ d.version \in {<<1>>, <<UnknownVersion>>} }

\* events.DataReceived on flow l
LayerDataReceived(l, scope) ==
    /\ raised = None
    /\ layers[l].conn.connected
    /\ \E datagram \in (IF layers[l].handler = "quic" /\ layers[l].tls = None
                        THEN FirstDatagrams
                        ELSE {Datagram(TRUE, <<>>, ClientCid, "SHORT", 1200, FALSE)}) :
         Handle("DataReceived", l, datagram, DataReceived(datagram), scope, layers)

\* events.ConnectionClosed on flow l: the runtime has marked the connection closed
LayerConnectionClosed(l, scope) ==
    /\ raised = None
    /\ ~layers[l].conn.closed
    /\ layers[l].handler # "roaming" \/ layers[l].roaming.state = "relay"
    /\ Handle("ConnectionClosed", l, NoneRec, ConnectionClosed, scope,
              [layers EXCEPT ![l].conn.connected = FALSE, ![l].conn.closed = TRUE])

\* events.Wakeup for a wakeup flow l has requested, once its deadline has come
LayerWakeup(l, scope) ==
    /\ raised = None
    /\ layers[l].handler = "quic"
    /\ \E i \in DOMAIN layers[l].wakeup_commands :
         /\ layers[l].wakeup_commands[i] <= clock.time
         /\ Handle("Wakeup", l, NoneRec, Wakeup(i), scope, layers)

\* an event of the server connection passes through the client layer to its child
LayerForeignEvent(l, scope) ==
    /\ raised = None
    /\ layers[l].handler = "quic"
    /\ layers[l].conn.tls_established
    /\ Handle("ForeignEvent", l, NoneRec, ForeignEvent, scope, layers)

\* events.MessageInjected on flow l, which a roaming layer handles
LayerMessageInjected(l, scope) ==
    /\ raised = None
    /\ layers[l].handler = "roaming"
    /\ Handle("MessageInjected", l, NoneRec, MessageInjected, scope, layers)

\* the event loop's clock advances
Tick ==
    /\ raised = None
    /\ clock.time < MaxTime
    /\ clock' = [clock EXCEPT !.time = @ + 1]
    /\ UNCHANGED <<layers, connections, lout, lhist, raised>>
    /\ UNCHANGED relayVars

\* one flow, every answer of the addons, every batch of engine events
ClientScope ==
    [times |-> {MaxTime}, pkts |-> {<<>>}, answers |-> HookAnswers, batch |-> MaxBatch,
     responses |-> ClientChildResponses, cids |-> TRUE]

\* two flows whose handshakes the addons accept
RoamingScope ==
    [times |-> {MaxTime}, pkts |-> {<<>>}, answers |-> {DefaultAnswers}, batch |-> 1,
     responses |-> ChildResponses, cids |-> TRUE]

\* one flow whose engine reports any deadline from now on and issues no further connection ID
TimerScope ==
    [times |-> clock.time..MaxTime, pkts |-> {<<>>}, answers |-> {DefaultAnswers}, batch |-> 1,
     responses |-> ChildResponses, cids |-> FALSE]

NextClient ==
    \/ LayerDataReceived(1, ClientScope)
    \/ LayerConnectionClosed(1, ClientScope)
    \/ LayerForeignEvent(1, ClientScope)

NextRoaming ==
    \E l \in LayerIds :
      \/ LayerDataReceived(l, RoamingScope)
      \/ LayerConnectionClosed(l, RoamingScope)
      \/ LayerMessageInjected(l, RoamingScope)

NextTimer ==
    \/ LayerDataReceived(1, TimerScope)
    \/ LayerWakeup(1, TimerScope)
    \/ LayerForeignEvent(1, TimerScope)
    \/ LayerConnectionClosed(1, TimerScope)
    \/ Tick

(***************************************************************************)
(* A server layer as a state machine.                                      *)
(***************************************************************************)
\* ServerQuicLayer.__init__: the server connection is not open yet
NewServerLayer(l) ==
    [NewLayer(l, FALSE, FALSE) EXCEPT !.handler = "server",
                                      !.conn.connected = FALSE,
                                      !.conn.closed = TRUE]

InitServerLayers ==
    /\ layers = [l \in LayerIds |-> IF l = 1 THEN NewServerLayer(l) ELSE NewLayer(l, FALSE, FALSE)]
    /\ connections = <<>>
    /\ clock = [time |-> 0, cid |-> 0]
    /\ lout = <<>>
    /\ lhist = NewHistory("Init", 0, NoneRec)

\* what the QuicTlsStartServerHook and the runtime's OpenConnection answer
ServerAnswers ==
    { [settings |-> st, ignore_connection |-> FALSE,
       establish_server_tls_first |-> FALSE, open_err |-> e]
      : st \in {None, "settings"}, e \in {None, "connection refused"} }

\* what the child of a server layer may yield for one event
ServerChildResponses == {<<>>, <<"QuicTransmit">>, <<"CloseConnection">>, <<"OpenConnection">>}

\* the child's answers to the events of one handler: at most MaxResponses of them, the
\* last one a command
MaxResponses == 2
ServerResponseSeqs ==
    {<<>>} \cup { r \in UNION {SeqsOfLength(ServerChildResponses, n) : n \in 1..MaxResponses} :
                    r[Len(r)] # <<>> }

\* The handler of one event of a server layer, for every answer it asks for: an answer the
\* handler does not ask for is left at its default.
ServerHandle(kind, l, event, before) ==
    LET Batches == IF event.type = "DataReceived" /\ "datagram" \in DOMAIN event
                      /\ before[l].quic # None
                   THEN EngineBatches(before[l].engine, clock.cid, MaxBatch)
                   ELSE {<<>>}
        Asked(r, answers) ==
            /\ r.inp.resp = <<>>
            /\ answers.settings = None =>
                 \E i \in DOMAIN r.lout : r.lout[i].cmd = "QuicTlsStartServerHook"
            /\ answers.open_err # None => r.lhist.opened # <<>>
        Try(r, answers) == Asked(r, answers) /\ LCommit(r)
        Answers(resp) == IF \E i \in DOMAIN resp : resp[i] = <<"OpenConnection">>
                         THEN ServerAnswers ELSE {DefaultAnswers}
    IN \E resp \in ServerResponseSeqs, batch \in Batches : \E answers \in Answers(resp) :
         Try(Dispatch(LWorking(kind, l, NoneRec,
                               Input(answers, batch, resp, <<MaxTime>>, <<>>), before), l, event),
             answers)

\* an event of the client connection passes through the server layer to its child
ServerClientEvent(l) ==
    /\ raised = None
    /\ ServerHandle("ClientEvent", l, ClientEvent, layers)

\* events.DataReceived on the server connection
ServerDataReceived(l) ==
    /\ raised = None
    /\ layers[l].conn.connected
    /\ ServerHandle("DataReceived", l,
                    DataReceived(Datagram(TRUE, <<>>, ClientCid, "SHORT", 1200, FALSE)), layers)

\* events.ConnectionClosed on the server connection: the runtime has marked it closed
ServerConnectionClosed(l) ==
    /\ raised = None
    /\ ~layers[l].conn.closed
    /\ ServerHandle("ConnectionClosed", l, ConnectionClosed,
                    [layers EXCEPT ![l].conn.connected = FALSE, ![l].conn.closed = TRUE])

\* the runtime answers an OpenConnection of the child that the layer passed on
ServerOpenCompleted(l) ==
    /\ raised = None
    /\ layers[l].runtime_open
    /\ \E err \in {None, "connection refused"} :
         ServerHandle("OpenConnectionCompleted", l, OpenConnectionCompleted(err, "runtime"),
                      [layers EXCEPT ![l].runtime_open = FALSE,
                                     ![l].conn.connected = IF err = None THEN TRUE ELSE @,
                                     ![l].conn.closed = IF err = None THEN FALSE ELSE @])

NextServer ==
    \/ ServerClientEvent(1)
    \/ ServerDataReceived(1)
    \/ ServerConnectionClosed(1)
    \/ ServerOpenCompleted(1)

(***************************************************************************)
(* The relay as a state machine.                                           *)
(***************************************************************************)
Working == [relay |-> relay, engines |-> engines, conns |-> conns,
            out |-> <<>>, hist |-> hist, raised |-> None]

\* the hooks of the UDP flow and of the streams' flows among the commands a handler yielded
FlowHooks(cmds) ==
    SelectSeq(cmds, LAMBDA c : c.cmd \in {"UdpStartHook", "UdpErrorHook", "UdpEndHook", "TcpStartHook",
                                          "TcpMessageHook", "TcpErrorHook", "TcpEndHook"})

\* history: hooks, the flow hooks yielded since the relay was created
Commit(s) ==
    /\ relay' = s.relay
    /\ engines' = s.engines
    /\ conns' = s.conns
    /\ out' = s.out
    /\ hist' = [s.hist EXCEPT !.hooks = @ \o FlowHooks(s.out)]
    /\ raised' = s.raised
    /\ UNCHANGED layerVars

Arrived(s, side, event) == [s EXCEPT !.hist.arrived[side] = Append(@, event)]

\* history: the event being handled, the side it is for and what the message hook wrote;
\* marked: the calls of mark_ended the handler makes, with the side's flag at the call and
\* the error passed
Last(s, kind, side, event, hook) ==
    [s EXCEPT !.hist.last = [kind |-> kind, side |-> side, event |-> event, hook |-> hook],
              !.hist.marked = <<>>]

NumArrived == Len(hist.arrived.client) + Len(hist.arrived.server)

InitRelay ==
    /\ \E ignore \in BOOLEAN :
         relay = [ state |-> "start",
                   flow |-> IF ignore THEN NoneRec ELSE NewFlow,
                   quic_client |-> None,
                   quic_server |-> None,
                   buffer_from_client |-> <<>>,
                   buffer_from_server |-> <<>>,
                   streams_by_id |-> <<>>,
                   stream_order |-> <<>> ]
    /\ engines = [side \in Sides |-> [calls |-> <<>>, close_event |-> NoneRec, started |-> FALSE]]
    /\ \E opened \in BOOLEAN :
         conns = [ client |-> [connected |-> TRUE, closed |-> FALSE, timestamp_start |-> "set"],
                   server |-> [connected |-> opened, closed |-> FALSE,
                               timestamp_start |-> IF opened THEN "set" ELSE None] ]
    /\ out = <<>>
    /\ InitLayers
    /\ hist = [ arrived |-> [side \in Sides |-> <<>>],
                handled |-> [side \in Sides |-> <<>>],
                marked |-> <<>>,
                hooks |-> <<>>,
                last |-> [kind |-> "Init", side |-> None, event |-> NoneRec, hook |-> None] ]
    /\ raised = None

\* state_start: events.Start
RelayStart ==
    /\ raised = None
    /\ relay.state = "start"
    /\ LET s0 == Last(Working, "Start", None, NoneRec, None)
           s1 == IF relay.flow # NoneRec THEN Yield(s0, <<[cmd |-> "UdpStartHook"]>>) ELSE s0
       IN
       IF conns.server.timestamp_start = None
       THEN \E err \in {None, "connection refused"} :
              IF err # None
              THEN LET s2 == IF s1.relay.flow # NoneRec
                             THEN Yield([s1 EXCEPT !.relay.flow.error = err],
                                        <<[cmd |-> "UdpErrorHook"]>>)
                             ELSE s1
                       s3 == Yield([s2 EXCEPT !.conns.client.connected = FALSE],
                                   <<[cmd |-> "CloseConnection", connection |-> "client"]>>)
                   IN Commit([s3 EXCEPT !.relay.state = "done"])
              ELSE Commit([s1 EXCEPT !.relay.state = "ready",
                                     !.conns.server.connected = TRUE,
                                     !.conns.server.timestamp_start = "set"])
       ELSE Commit([s1 EXCEPT !.relay.state = "ready"])

\* QuicStart(connection, quic) from the QUIC layer of one side
RelayQuicStart ==
    /\ raised = None
    /\ \E side \in Sides :
         /\ ~engines[side].started
         /\ conns[side].connected
         /\ LET from_client == side = "client"
                s0 == [Last(Working, "QuicStart", side, NoneRec, None)
                           EXCEPT !.engines[side].started = TRUE]
            IN
            \/ /\ relay.state = "ready"
               /\ \E hooks \in [1..MaxEvents -> HookWrites] :
                    Commit(state_ready_quic_start(s0, from_client, hooks))
            \/ /\ relay.state = "done"
               /\ Commit(s0)

\* QuicConnectionEvent(connection, event) from the QUIC layer of one side
RelayQuicConnectionEvent ==
    /\ raised = None
    /\ NumArrived < MaxEvents
    /\ \E side \in Sides, event \in DataEvents :
         /\ engines[side].started
         /\ engines[side].close_event = NoneRec
         /\ \/ /\ relay.state = "ready"
               /\ \E hook \in HookWrites :
                    Commit(handle_quic_event(
                        Arrived(Last(Working, "QuicConnectionEvent", side, event, hook), side, event),
                        event, side = "client", hook))
            \/ /\ relay.state = "done"
               /\ Commit(Last(Working, "QuicConnectionEvent", side, event, None))

\* TcpMessageInjected(flow, message)
RelayTcpMessageInjected ==
    /\ raised = None
    /\ NumArrived < MaxEvents
    /\ \E stream_id \in DOMAIN relay.streams_by_id, from_client \in BOOLEAN, content \in Payloads :
         /\ relay.streams_by_id[stream_id].flow # NoneRec
         /\ \/ /\ relay.state = "ready"
               /\ LET event == StreamDataReceived(stream_id, content, FALSE)
                      side == IF from_client THEN "client" ELSE "server"
                  IN \E hook \in HookWrites :
                       Commit(handle_quic_event(
                           Arrived(Last(Working, "TcpMessageInjected", side, event, hook), side, event),
                           event, from_client, hook))
            \/ /\ relay.state = "done"
               /\ Commit(Last(Working, "TcpMessageInjected", None, NoneRec, None))

\* UdpMessageInjected(flow, message)
RelayUdpMessageInjected ==
    /\ raised = None
    /\ NumArrived < MaxEvents
    /\ relay.flow # NoneRec
    /\ \E from_client \in BOOLEAN, content \in Payloads :
         \/ /\ relay.state = "ready"
            /\ LET event == DatagramFrameReceived(content)
                   side == IF from_client THEN "client" ELSE "server"
               IN \E hook \in HookWrites :
                    Commit(handle_quic_event(
                        Arrived(Last(Working, "UdpMessageInjected", side, event, hook), side, event),
                        event, from_client, hook))
         \/ /\ relay.state = "done"
            /\ Commit(Last(Working, "UdpMessageInjected", None, NoneRec, None))

\* events.ConnectionClosed(connection) for one side
RelayConnectionClosed ==
    /\ raised = None
    /\ relay.state \in {"ready", "done"}
    /\ \E side \in Sides, ce \in CloseEvents, swallowed \in BOOLEAN :
         /\ ~conns[side].closed
         /\ LET s0 == [Last(Working, "ConnectionClosed", side, NoneRec, None)
                           EXCEPT !.conns[side].connected = FALSE,
                                      !.conns[side].closed = TRUE,
                                      !.engines[side].close_event =
                                          IF engines[side].started /\ @ = NoneRec THEN ce ELSE @]
            IN
            \/ /\ relay.state = "ready"
               /\ Commit(state_ready_closed(s0, side = "client", swallowed))
            \/ /\ relay.state = "done"
               /\ Commit(state_done_closed(s0, side = "client"))

NextRelay ==
    \/ RelayStart
    \/ RelayQuicStart
    \/ RelayQuicConnectionEvent
    \/ RelayTcpMessageInjected
    \/ RelayUdpMessageInjected
    \/ RelayConnectionClosed

Spec == InitRelay /\ [][NextRelay]_vars

\* the relay at rest while the QUIC layers run
RelayIdle ==
    /\ relay = [ state |-> "start", flow |-> NoneRec, quic_client |-> None, quic_server |-> None,
                 buffer_from_client |-> <<>>, buffer_from_server |-> <<>>,
                 streams_by_id |-> <<>>, stream_order |-> <<>> ]
    /\ engines = [side \in Sides |-> [calls |-> <<>>, close_event |-> NoneRec, started |-> FALSE]]
    /\ conns = [ client |-> [connected |-> TRUE, closed |-> FALSE, timestamp_start |-> "set"],
                 server |-> [connected |-> FALSE, closed |-> FALSE, timestamp_start |-> None] ]
    /\ out = <<>>
    /\ hist = [ arrived |-> [side \in Sides |-> <<>>],
                handled |-> [side \in Sides |-> <<>>],
                marked |-> <<>>,
                hooks |-> <<>>,
                last |-> [kind |-> "Init", side |-> None, event |-> NoneRec, hook |-> None] ]
    /\ raised = None

InitClient == RelayIdle /\ InitLayers

SpecClient == InitClient /\ [][NextClient]_vars

SpecRoaming == InitClient /\ [][NextRoaming]_vars

SpecTimer == InitClient /\ [][NextTimer]_vars

InitServer == RelayIdle /\ InitServerLayers

SpecServer == InitServer /\ [][NextServer]_vars

(***************************************************************************)
(* Properties of the relay.                                                *)
(***************************************************************************)
\* the data of the calls of one kind (for one stream) that an engine received, in order
RECURSIVE CallData(_, _, _)
CallData(calls, kind, stream_id) ==
    IF calls = <<>> THEN <<>>
    ELSE LET c == Head(calls)
             hit == /\ c.call = kind
                    /\ (kind = "send_stream_data" => c.stream_id = stream_id)
         IN (IF hit THEN <<c.data>> ELSE <<>>) \o CallData(Tail(calls), kind, stream_id)

\* the contents of a flow's messages of one direction, in order
RECURSIVE MessageContents(_, _)
MessageContents(messages, from_client) ==
    IF messages = <<>> THEN <<>>
    ELSE (IF Head(messages).from_client = from_client THEN <<Head(messages).content>> ELSE <<>>)
         \o MessageContents(Tail(messages), from_client)

\* C1: with hooks enabled, the bytes the relay hands to the peer engine for every datagram
\* and for every piece of stream data (organic, replayed from the buffer or injected) are
\* the content of the message as the message hook left it: per direction, and per stream,
\* the data of the send_datagram_frame / send_stream_data calls are the contents of the
\* flow's messages, one call per message and in the same order.
C1_HookedBytesReachPeer ==
    relay.flow # NoneRec =>
      \A from_client \in BOOLEAN :
        LET peer == IF from_client THEN "server" ELSE "client" IN
        /\ CallData(engines[peer].calls, "send_datagram_frame", 0)
             = MessageContents(relay.flow.messages, from_client)
        /\ \A i \in DOMAIN relay.streams_by_id :
             CallData(engines[peer].calls, "send_stream_data", i)
               = MessageContents(relay.streams_by_id[i].flow.messages, from_client)

\* a hook rewrote "ABC" to "ab" on a stream, and a hook emptied an injected message
C1_Witness ==
    /\ relay.flow # NoneRec
    /\ \E i \in DOMAIN engines.server.calls :
         engines.server.calls[i].call = "send_stream_data" /\ engines.server.calls[i].data = "ab"
    /\ hist.last.kind \in {"TcpMessageInjected", "UdpMessageInjected"}
    /\ hist.last.hook = ""
    /\ hist.last.event.data = "ABC"
    /\ Len(hist.handled[hist.last.side]) = Len(hist.arrived[hist.last.side])

\* the calls an engine received in the last step
NewCalls(side) == SubSeq(engines'[side].calls, Len(engines[side].calls) + 1, Len(engines'[side].calls))

\* C2: a StreamDataReceived fed to the relay in Ready, with the peer engine registered and the
\* sending side of the stream not ended, makes exactly one send_stream_data call on the peer
\* engine, with the same stream id and end_stream flag whatever the hook wrote, and with the
\* same data when no hook changed the content; if end_stream is set, the sending side of the
\* stream is ended afterwards.
C2_Step ==
    \A side \in Sides, event \in DataEvents :
      LET from_client == side = "client"
          peer == IF from_client THEN "server" ELSE "client"
          peer_quic == IF from_client THEN relay.quic_server ELSE relay.quic_client
          ended_before ==
              IF event.stream_id \in DOMAIN relay.streams_by_id
              THEN has_ended(relay.streams_by_id[event.stream_id], from_client)
              ELSE has_ended(QuicStream(event.stream_id, FALSE), from_client)
      IN
      ( /\ event.type = "StreamDataReceived"
        /\ relay.state = "ready"
        /\ peer_quic # None
        /\ hist'.arrived[side] = Append(hist.arrived[side], event)
        /\ ~ended_before )
      =>
      ( /\ raised' = None
        /\ Len(NewCalls(peer)) = 1
        /\ NewCalls(side) = <<>>
        /\ NewCalls(peer)[1].call = "send_stream_data"
        /\ NewCalls(peer)[1].stream_id = event.stream_id
        /\ NewCalls(peer)[1].end_stream = event.end_stream
        /\ (hist'.last.hook = None \/ relay.flow = NoneRec => NewCalls(peer)[1].data = event.data)
        /\ (event.end_stream => has_ended(relay'.streams_by_id[event.stream_id], from_client)) )

C2_StreamDataRoundTrip == [][C2_Step]_vars

\* a hook emptied the content of a client message with end_stream set: the server engine got
\* send_stream_data(0, "", TRUE) and the client side of the stream is ended
C2_Witness ==
    /\ hist.last.kind = "QuicConnectionEvent"
    /\ hist.last.side = "client"
    /\ hist.last.event = StreamDataReceived(0, "ABC", TRUE)
    /\ hist.last.hook = ""
    /\ engines.server.calls # <<>>
    /\ engines.server.calls[Len(engines.server.calls)]
         = [call |-> "send_stream_data", stream_id |-> 0, data |-> "", end_stream |-> TRUE]
    /\ relay.streams_by_id[0].ended_client

\* C3: the events of a side handed to handle_quic_event are, in arrival order, the events
\* worked off followed by the events still buffered; nothing is worked off while the opposite
\* engine is not registered, and once QuicStart has registered it (relay in Ready) the buffer
\* is empty: every buffered event was worked off once, in order, before any later event.
C3_BufferedReplayInOrder ==
    \A side \in Sides :
      LET buffer == IF side = "client" THEN relay.buffer_from_client ELSE relay.buffer_from_server
          peer_quic == IF side = "client" THEN relay.quic_server ELSE relay.quic_client
      IN /\ hist.arrived[side] = hist.handled[side] \o buffer
         /\ peer_quic = None => hist.handled[side] = <<>>
         /\ peer_quic # None => buffer = <<>>

\* QuicStart of the server has just replayed two different buffered client events
C3_Witness ==
    /\ hist.last.kind = "QuicStart"
    /\ hist.last.side = "server"
    /\ relay.quic_server # None
    /\ Len(hist.handled.client) = 2
    /\ hist.handled.client[1] # hist.handled.client[2]
    /\ Len(engines.server.calls) = 2
    /\ relay.buffer_from_client = <<>>

(***************************************************************************)
(* The connection-ID table.                                                *)
(***************************************************************************)
KeysOwnedBy(l) == {k \in DOMAIN connections : connections[k] = l}

\* C4: once a ClientQuicLayer's endpoint has terminated (TLS was started and the engine
\* reference is dropped again) the connection-ID table holds no key that maps to this layer.
C4_NoKeyOfTerminatedLayer ==
    \A l \in LayerIds :
      (layers[l].tls # None /\ layers[l].quic = None) => KeysOwnedBy(l) = {}

\* C5: when start_tls has succeeded on a layer, the connection-ID table as it is when
\* start_tls returns maps (sockname, host CID of the new engine) to that layer.
C5_HostCidRegistered ==
    lhist.started # NoneRec =>
      /\ Key(lhist.started.host_cid) \in DOMAIN lhist.started.connections
      /\ lhist.started.connections[Key(lhist.started.host_cid)] = lhist.started.layer

(***************************************************************************)
(* The wakeup registry.                                                    *)
(***************************************************************************)
Outstanding(l) == layers[l].wakeup_commands

DueBy(l, deadline) == {i \in DOMAIN Outstanding(l) : Outstanding(l)[i] <= deadline}

\* C6 as stated: a layer with an engine never holds more than one outstanding wakeup whose
\* deadline is at most the deadline the engine reported last.
C6_AtMostOneWakeupDue ==
    \A l \in LayerIds :
      (layers[l].quic # None /\ layers[l].engine.timer # <<>>) =>
         Cardinality(DueBy(l, layers[l].engine.timer[1])) <= 1

\* C6 amended: every wakeup transmit() requests is, at the moment of the request, the only
\* outstanding wakeup of its layer whose deadline is at most the engine's next deadline.
C6_RequestedWakeupAloneDue ==
    \A i \in DOMAIN lhist.requests : lhist.requests[i].alone

\* a wakeup was requested while another one was outstanding
C6_Witness ==
    /\ lhist.requests # <<>>
    /\ Len(Outstanding(lhist.requests[1].layer)) >= 2
    /\ lhist.requests[1].alone

\* C7 as stated: a layer has at most one outstanding wakeup at any time.
C7_SingleOutstandingWakeup ==
    \A l \in LayerIds : Len(Outstanding(l)) <= 1

\* C7 amended: the outstanding wakeups of a layer have pairwise different deadlines, each
\* requested later having the earlier deadline, so the last requested is the earliest.
C7_WakeupsStrictlyEarlier ==
    \A l \in LayerIds :
      \A i \in DOMAIN Outstanding(l), j \in DOMAIN Outstanding(l) :
        i < j => Outstanding(l)[i] > Outstanding(l)[j]

\* two wakeups are outstanding and the engine's deadline is later than both
C7_Witness ==
    \E l \in LayerIds :
      /\ layers[l].quic # None
      /\ Len(Outstanding(l)) = 2
      /\ Outstanding(l)[2] < Outstanding(l)[1]
      /\ layers[l].engine.timer # <<>>
      /\ layers[l].engine.timer[1] > Outstanding(l)[1]

(***************************************************************************)
(* Version negotiation and the first datagram.                             *)
(***************************************************************************)
IsVersionNegotiation(cmd) ==
    /\ cmd.cmd = "SendData"
    /\ "data" \in DOMAIN cmd
    /\ cmd.data.type = "VersionNegotiation"

VersionNegotiationSent == \E i \in DOMAIN lout : IsVersionNegotiation(lout[i])

Supported == {Filtered(QuicProtocolVersion)[i] : i \in DOMAIN Filtered(QuicProtocolVersion)}

\* datagram_received has just run on a datagram whose header parses
FirstDatagramParsed ==
    /\ lhist.last.kind = "DataReceived"
    /\ lhist.first # <<>>
    /\ lhist.last.datagram.valid

\* C8: for a parsed datagram on a layer that has not started TLS, a version-negotiation
\* packet is sent exactly if the header has a version that is non-zero and unsupported.
C8_VersionNegotiationIff ==
    FirstDatagramParsed =>
      (VersionNegotiationSent <=>
         /\ lhist.last.datagram.version # <<>>
         /\ lhist.last.datagram.version[1] # NEGOTIATION
         /\ lhist.last.datagram.version[1] \notin Supported)

\* C9: a version-negotiation packet sent by datagram_received lists every supported version.
C9_AllSupportedVersionsListed ==
    \A i \in DOMAIN lout :
      IsVersionNegotiation(lout[i]) =>
        \A v \in Supported :
          \E j \in DOMAIN lout[i].data.supported_versions :
            lout[i].data.supported_versions[j] = v

\* C10: when datagram_received returned no error and started no engine, the DataReceived
\* event is not handed to the child of the layer that ran datagram_received.
C10_DatagramNotForwardedToChild ==
    (/\ lhist.result # <<>>
     /\ lhist.result[1].err = None
     /\ lhist.started = NoneRec) =>
       \A i \in DOMAIN lhist.child :
         ~(/\ lhist.child[i].layer = lhist.result[1].layer
           /\ lhist.child[i].event.type = "DataReceived")

(***************************************************************************)
(* Roaming.                                                                *)
(***************************************************************************)
\* the header parses and the version test lets the datagram pass to the table lookup
ReachesLookup(d) == d.valid /\ (d.version = <<>> \/ d.version[1] \in Supported)

\* flow l is a ClientQuicLayer that has not started TLS and the event just handled is a
\* datagram on l that reached the lookup with a connection ID found in the table
FirstDatagramForKnownCid(l) ==
    /\ layers[l].handler = "quic"
    /\ layers[l].tls = None
    /\ lhist'.last.kind = "DataReceived"
    /\ lhist'.last.layer = l
    /\ ReachesLookup(lhist'.last.datagram)
    /\ Key(lhist'.last.datagram.destination_cid) \in DOMAIN connections

C11_Step ==
    \A l \in LayerIds :
      (FirstDatagramForKnownCid(l) /\ ~layers[l].can_roam) =>
        /\ lout' = <<[layer |-> l, cmd |-> "Log", message |-> "Connection cannot roam."]>>
        /\ layers' = layers
        /\ connections' = connections
        /\ lhist'.fed = <<>> /\ lhist'.roamed = <<>> /\ lhist'.child = <<>>
        /\ lhist'.started = NoneRec

\* C11: a first datagram on a layer without roaming whose destination CID is in the table
\* is only logged as "Connection cannot roam.": no layer is replaced, no hook fires, no
\* engine is created or fed, and every layer and the table stay as they were.
C11_CannotRoamRejected == [][C11_Step]_vars

\* the datagram of flow 1 (no roaming) named a connection ID another layer owns
C11_Witness ==
    /\ lhist.last.kind = "DataReceived"
    /\ lhist.last.layer = 1
    /\ lhist.result = <<[layer |-> 1, err |-> "Connection cannot roam."]>>
    /\ Key(lhist.last.datagram.destination_cid) \in DOMAIN connections
    /\ connections[Key(lhist.last.datagram.destination_cid)] = 2

\* the event just handled is a datagram on flow l
DatagramOn(l) == lhist'.last.kind = "DataReceived" /\ lhist'.last.layer = l

\* the datagram just handled was handed once, as a DataReceived event, to layer target,
\* whose peer address is now that of flow l
DeliveredTo(l, target) ==
    /\ lhist'.roamed = <<[target |-> target, event |-> DataReceived(lhist'.last.datagram)]>>
    /\ layers'[target].conn.peername = layers[l].conn.peername

C12_Step ==
    \A l \in LayerIds :
      /\ (FirstDatagramForKnownCid(l) /\ layers[l].can_roam) =>
           LET target == connections[Key(lhist'.last.datagram.destination_cid)] IN
           /\ layers'[l].handler = "roaming"
           /\ layers'[l].roaming = [state |-> "relay", target |-> target]
           /\ layers[l].conn.peername \in DOMAIN layers'[target].routes
           /\ layers'[target].routes[layers[l].conn.peername] = l
           /\ DeliveredTo(l, target)
      /\ (DatagramOn(l) /\ layers[l].handler = "roaming" /\ layers[l].roaming.state = "relay") =>
           /\ layers'[l].handler = "roaming"
           /\ layers'[l].roaming = layers[l].roaming
           /\ DeliveredTo(l, layers[l].roaming.target)

\* C12: a first datagram on a roaming-enabled layer whose destination CID is owned by a
\* layer T installs a QuicRoamingLayer bound to T, registers the flow's peer address in T's
\* routes and sets T's peer address to it; that datagram and each later datagram of the
\* flow is handed exactly once, within its own handler, to T as a DataReceived event.
C12_RoamingDelivers == [][C12_Step]_vars

\* a later datagram of the roaming flow 2 has been handed to layer 1
C12_Witness ==
    /\ lhist.last.kind = "DataReceived"
    /\ lhist.last.layer = 2
    /\ lhist.first = <<>>
    /\ layers[2].handler = "roaming"
    /\ lhist.roamed # <<>>
    /\ lhist.roamed[1].target = 1
    /\ layers[1].conn.peername = Peername(2)
    /\ lhist.fed = <<1>>

(***************************************************************************)
(* The handshake check of start_client_tls.                                *)
(***************************************************************************)
\* flow l is a ClientQuicLayer that has not started TLS and the event just handled is a
\* datagram on l whose destination CID is not in the table
FirstDatagramForUnknownCid(l) ==
    /\ layers[l].handler = "quic"
    /\ layers[l].tls = None
    /\ DatagramOn(l)
    /\ Key(lhist'.last.datagram.destination_cid) \notin DOMAIN connections

\* the log with which a first datagram is rejected; None if it is not rejected
Rejection(d) ==
    IF ~d.valid THEN "Invalid QUIC datagram received."
    ELSE IF ~ReachesLookup(d) THEN None
    ELSE IF d.length < 1200 \/ d.packet_type # "INITIAL" THEN "Invalid handshake received."
    ELSE IF ~d.hello THEN "Cannot parse ClientHello"
    ELSE None

C13_Step ==
    \A l \in LayerIds :
      FirstDatagramForUnknownCid(l) =>
        LET d == lhist'.last.datagram IN
        /\ Rejection(d) # None =>
             /\ lout' = <<[layer |-> l, cmd |-> "Log", message |-> Rejection(d)]>>
             /\ layers' = layers
             /\ connections' = connections
             /\ lhist'.child = <<>> /\ lhist'.fed = <<>> /\ lhist'.started = NoneRec
        /\ lhist'.started # NoneRec => (d.packet_type = "INITIAL" /\ d.length >= 1200)
        /\ (ReachesLookup(d) /\ d.packet_type = "INITIAL" /\ d.length = 1200 /\ d.hello) =>
             /\ lout' # <<>>
             /\ lout'[1].cmd = "TlsClienthelloHook"
             /\ layers'[l].conn.sni = "example.com"

\* C13: a first datagram for an unknown destination CID that reaches start_client_tls is
\* rejected with a log unless it is an Initial of at least 1200 bytes with a parsable
\* ClientHello; on a rejection (also of an unparsable datagram) nothing but the log happens:
\* no hook, no SNI or ALPN offers, no engine, the table unchanged, nothing handed to the
\* child. A 1200-byte Initial with a parsable ClientHello reaches the ClientHello hook.
C13_HandshakeNeedsInitial == [][C13_Step]_vars

\* a 1199-byte Initial with a parsable ClientHello has been rejected
C13_Witness ==
    /\ lhist.last.kind = "DataReceived"
    /\ lhist.last.datagram.valid
    /\ lhist.last.datagram.packet_type = "INITIAL"
    /\ lhist.last.datagram.length = 1199
    /\ lhist.last.datagram.hello
    /\ lhist.result = <<[layer |-> lhist.last.layer, err |-> "Invalid handshake received."]>>

(***************************************************************************)
(* ConnectionClosed in the relay.                                          *)
(***************************************************************************)
\* the engine the relay has registered for a side, None if none
Registered(side) == IF side = "client" THEN relay.quic_client ELSE relay.quic_server

\* the relay in state Ready has just handled ConnectionClosed for a side
ReadyClosed(side) ==
    /\ relay.state = "ready"
    /\ hist'.last.kind = "ConnectionClosed"
    /\ hist'.last.side = side

\* the close event of the closed side as the relay reads it: none without a registered engine
KnownCloseEvent(side) ==
    IF Registered(side) = None THEN NoneRec ELSE engines'[side].close_event

Emitted(cmd) == {i \in DOMAIN out' : out'[i] = cmd}

C14_Step ==
    \A side \in Sides :
      ReadyClosed(side) =>
        LET peer == PeerOf(side)
            close_event == KnownCloseEvent(side)
            plain == [cmd |-> "CloseConnection", connection |-> peer]
        IN
        /\ relay'.state = "done"
        /\ IF close_event # NoneRec /\ Registered(peer) # None
           THEN /\ NewCalls(peer) = <<[call |-> "close", error_code |-> close_event.error_code,
                                       frame_type |-> close_event.frame_type,
                                       reason_phrase |-> close_event.reason_phrase]>>
                /\ Cardinality(Emitted(QuicTransmit(peer))) = 1
                /\ Emitted(plain) = {}
           ELSE /\ NewCalls(peer) = <<>>
                /\ Emitted(QuicTransmit(peer)) = {}
                /\ Cardinality(Emitted(plain)) = 1

\* C14: on ConnectionClosed for a side in Ready, if the side's engine is registered with a
\* close event and the peer engine is registered, the peer engine gets exactly one close
\* call with the close event's code, frame type and reason and one QuicTransmit for the
\* peer is emitted; otherwise exactly one CloseConnection for the peer connection is
\* emitted and the peer engine is not called; either way the relay is in Done afterwards.
C14_CloseReachesPeer == [][C14_Step]_vars

\* a close with a reason has been passed on to the registered peer engine
C14_Witness ==
    /\ hist.last.kind = "ConnectionClosed"
    /\ relay.state = "done"
    /\ relay.quic_client # None /\ relay.quic_server # None
    /\ \E i \in DOMAIN out : out[i].cmd = "QuicTransmit"
    /\ \E side \in Sides :
         /\ engines[side].calls # <<>>
         /\ engines[side].calls[Len(engines[side].calls)].call = "close"
         /\ engines[side].calls[Len(engines[side].calls)].reason_phrase = "bad cert"

\* the relay has just handled ConnectionClosed for a side, in Ready or in Done
Closed(side) == hist'.last.kind = "ConnectionClosed" /\ hist'.last.side = side

UdpErrorHookEmitted == Emitted([cmd |-> "UdpErrorHook"]) # {}

\* the error the handler has put on the UDP flow, None if it has put none
RecordedError ==
    IF relay.flow = NoneRec \/ relay'.flow.error = relay.flow.error THEN None
    ELSE relay'.flow.error

\* the text of a close event: its reason, or the name of its code if it has no reason
ErrorText(close_event) ==
    IF close_event.reason_phrase # "" THEN close_event.reason_phrase
    ELSE error_code_to_str(close_event.error_code)

Failure(close_event) == close_event # NoneRec /\ close_event.error_code \notin {0, 256}

\* the statement without the condition on the flow: in Ready an error is recorded and the
\* hook emitted exactly when a close event with a non-success code is known
C15_Original_Step ==
    \A side \in Sides :
      ReadyClosed(side) =>
        (Failure(KnownCloseEvent(side)) <=> (UdpErrorHookEmitted /\ RecordedError # None))

C15_Original == [][C15_Original_Step]_vars

C15_Step ==
    \A side \in Sides :
      Closed(side) =>
        LET close_event == KnownCloseEvent(side) IN
        IF relay.state = "ready" /\ relay.flow # NoneRec /\ Failure(close_event)
        THEN /\ Cardinality(Emitted([cmd |-> "UdpErrorHook"])) = 1
             /\ RecordedError = ErrorText(close_event)
        ELSE /\ ~UdpErrorHookEmitted
             /\ RecordedError = None

\* C15: on ConnectionClosed handled in Ready by a relay that has a UDP flow, the reason of
\* the close event (or the name of its code) is recorded as the flow's error and one
\* UdpErrorHook is emitted if and only if a close event is known and its code is neither
\* NO_ERROR nor H3_NO_ERROR; in every other case (a success code whatever the reason, no
\* close event, no UDP flow, relay already Done) the flow's error is left alone and no
\* UdpErrorHook is emitted.
C15_ErrorRecordedIffFailure == [][C15_Step]_vars

\* a close with an error code has been recorded on the UDP flow
C15_Witness ==
    /\ hist.last.kind = "ConnectionClosed"
    /\ relay.flow # NoneRec
    /\ relay.flow.error = "UDP connection closed or timed out."
    /\ \E i \in DOMAIN out : out[i].cmd = "UdpErrorHook"

\* the relay, Ready with a UDP flow and both engines registered, has just handled the
\* ConnectionClosed of the server whose engine terminated with the given close event
ServerTerminated(close_event) ==
    /\ ReadyClosed("server")
    /\ relay.flow # NoneRec
    /\ relay.quic_client # None /\ relay.quic_server # None
    /\ engines'.server.close_event = close_event

BadCert == ConnectionTerminated(256, None, "bad cert")

ClientClosedWith(close_event) ==
    NewCalls("client") = <<[call |-> "close", error_code |-> close_event.error_code,
                            frame_type |-> close_event.frame_type,
                            reason_phrase |-> close_event.reason_phrase]>>

\* the statement as given: the client engine is closed with (0x100, "bad cert"), the UDP
\* flow's error is "bad cert" and UdpErrorHook fires
C16_Original_Step ==
    ServerTerminated(BadCert) =>
      /\ ClientClosedWith(BadCert)
      /\ relay'.flow.error = "bad cert"
      /\ UdpErrorHookEmitted

C16_Original == [][C16_Original_Step]_vars

C16_Step ==
    /\ ServerTerminated(BadCert) =>
         /\ ClientClosedWith(BadCert)
         /\ Cardinality(Emitted(QuicTransmit("client"))) = 1
         /\ relay'.flow.error = None
         /\ ~UdpErrorHookEmitted
    /\ \A close_event \in CloseEvents :
         (ServerTerminated(close_event) /\ close_event.error_code \notin {0, 256}) =>
           /\ ClientClosedWith(close_event)
           /\ relay'.flow.error = close_event.reason_phrase
           /\ UdpErrorHookEmitted

\* C16: when the server engine terminated with ConnectionTerminated(0x100, "bad cert")
\* while the relay is Ready with a UDP flow and both engines registered, the client engine
\* is closed with (0x100, "bad cert") and a transmit for the client is requested, but
\* 0x100 is H3_NO_ERROR, a success code: the UDP flow's error stays unset and no
\* UdpErrorHook fires.  With a code that is not a success code the flow's error is set to
\* the reason and UdpErrorHook fires.
C16_BadCertClosesClientWithoutError == [][C16_Step]_vars

\* the client engine has been closed with (0x100, "bad cert") and the flow carries no error
C16_Witness ==
    /\ hist.last.kind = "ConnectionClosed" /\ hist.last.side = "server"
    /\ relay.state = "done"
    /\ relay.flow # NoneRec /\ relay.flow.error = None
    /\ relay.quic_client # None /\ relay.quic_server # None
    /\ engines.server.close_event = BadCert
    /\ engines.client.calls # <<>>
    /\ engines.client.calls[Len(engines.client.calls)] =
         [call |-> "close", error_code |-> 256, frame_type |-> None, reason_phrase |-> "bad cert"]

(***************************************************************************)
(* The ended flags and the live flag of the relay's streams.               *)
(***************************************************************************)
\* in a relay state, the flow of every stream that has one is live exactly while the
\* stream has not ended on both sides
LiveUntilBothEnded(r) ==
    \A id \in DOMAIN r.streams_by_id :
      LET stream == r.streams_by_id[id] IN
      stream.flow # NoneRec => (stream.flow.live <=> ~(stream.ended_client /\ stream.ended_server))

C17_Step ==
    /\ LiveUntilBothEnded(relay')
    /\ \A id \in DOMAIN relay.streams_by_id :
         /\ id \in DOMAIN relay'.streams_by_id
         /\ LET before == relay.streams_by_id[id]
                after == relay'.streams_by_id[id]
            IN
            /\ before.ended_client => after.ended_client
            /\ before.ended_server => after.ended_server
            /\ (before.flow = NoneRec) <=> (after.flow = NoneRec)
            /\ (before.flow # NoneRec /\ ~before.flow.live) => ~after.flow.live

\* C17: a stream held by the relay stays held, its ended_client and ended_server never go
\* from true back to false, and its flow (if it has one) is live exactly until the step
\* after which both flags are true: that step clears the live flag, whether or not an
\* error was recorded, and no later step sets it again.
C17_EndedMonotonicLiveClearedOnce == [][C17_Step]_vars

\* a bidirectional stream that ended with an error on both sides and is no longer live
C17_Witness ==
    \E id \in DOMAIN relay.streams_by_id :
      LET stream == relay.streams_by_id[id] IN
      /\ ~stream_is_unidirectional(id)
      /\ stream.flow # NoneRec
      /\ stream.ended_client /\ stream.ended_server
      /\ stream.flow.error # None
      /\ ~stream.flow.live

(***************************************************************************)
(* mark_ended is only called for a side that has not ended.                *)
(***************************************************************************)
C18_Step ==
    /\ raised' # "AssertionError: mark_ended"
    /\ \A i \in DOMAIN hist'.marked :
         LET call == hist'.marked[i]
             id == call.stream_id
         IN
         /\ ~call.ended
         /\ (stream_is_unidirectional(id) /\ stream_is_client_initiated(id)) => call.client
         /\ (stream_is_unidirectional(id) /\ ~stream_is_client_initiated(id)) => ~call.client

\* C18: in every handler of the relay (stream data, resets, injected messages, replay of
\* buffered events, connection closes) each call of mark_ended is for a side whose ended
\* flag is false at the call, so the assertion in mark_ended never fails; for a
\* client-initiated unidirectional stream it is never called for the server side and for
\* a server-initiated unidirectional stream never for the client side.
C18_NeverMarkedEndedTwice == [][C18_Step]_vars

\* a connection close ends the open side of a client-initiated unidirectional stream
\* while the other close finds nothing left to end on it
C18_Witness ==
    /\ hist.last.kind = "ConnectionClosed"
    /\ hist.last.side = "server"
    /\ conns.client.closed
    /\ 2 \in DOMAIN relay.streams_by_id
    /\ relay.streams_by_id[2].ended_client /\ relay.streams_by_id[2].ended_server
    /\ \E i \in DOMAIN hist.marked : hist.marked[i].stream_id = 0
    /\ \A i \in DOMAIN hist.marked : hist.marked[i].stream_id # 2
    /\ raised = None

(***************************************************************************)
(* The order of the client-side hooks of a handshake.                      *)
(***************************************************************************)
\* the positions of a command among those the last handler yielded
Positions(cmd) == {i \in DOMAIN lout' : lout'[i].cmd = cmd}

\* the last handler took a first Initial, asked the TlsClienthelloHook and was not told to ignore
AcceptedInitial ==
    /\ lhist'.last.kind = "DataReceived"
    /\ Positions("TlsClienthelloHook") # {}
    /\ ~lhist'.answers.ignore_connection

\* positions in the child's history of the QuicStart events
QuicStarts == {j \in DOMAIN lhist'.child : lhist'.child[j].event = QuicStartEvent}

C19_Step ==
    LET l == lhist'.last.layer IN
    /\ AcceptedInitial =>
         /\ Positions("TlsClienthelloHook") = {1}
         /\ lout'[1].sni = "example.com" /\ lout'[1].alpn_protocols = <<"h3">>
         /\ Positions("OpenConnection") =
              IF lhist'.answers.establish_server_tls_first /\ ~layers[l].server_tls_established
                 /\ layers[l].server_layer
              THEN {2} ELSE {}
         /\ Cardinality(Positions("QuicTlsStartClientHook")) = 1
         /\ \A k \in Positions("QuicTlsStartClientHook") :
              /\ 1 < k
              /\ \A i \in Positions("OpenConnection") : i < k
    /\ \A i \in Positions("TlsEstablishedClientHook") :
         /\ lout'[i].tls_version = "QUIC" /\ lout'[i].alpn = "h3"
         /\ layers'[l].conn.alpn = "h3"
         /\ \A k \in Positions("QuicTlsStartClientHook") : k < i
         /\ Positions("QuicTlsStartClientHook") = {} => layers[l].tls # None
         /\ \E j \in QuicStarts : lhist'.child_at[j] = i + 1
    /\ \A j \in QuicStarts :
         \E i \in Positions("TlsEstablishedClientHook") : i < lhist'.child_at[j]

\* C19: for an accepted first Initial the handler yields TlsClienthelloHook first, with the
\* parsed SNI and ALPN offers; then OpenConnection(server) exactly if the hook asked for
\* server TLS first, the server is not TLS-established and a server layer exists; then
\* QuicTlsStartClientHook, once, whether or not that OpenConnection failed.  Every
\* TlsEstablishedClientHook carries tls_version "QUIC" and the negotiated ALPN, comes after
\* the QuicTlsStartClientHook of its layer, and is followed by the QuicStart to the child
\* before any further command; no QuicStart reaches the child without it.
C19_HandshakeHookOrder == [][C19_Step]_vars

\* one handler goes through the whole order: the hook asks for server TLS first, the
\* OpenConnection fails, start_tls runs and the engine completes the handshake
C19_Witness ==
    /\ lhist.last.kind = "DataReceived"
    /\ Len(lout) >= 5
    /\ lout[1].cmd = "TlsClienthelloHook"
    /\ lout[2].cmd = "OpenConnection"
    /\ lout[3].cmd = "Log"
    /\ lout[4].cmd = "QuicTlsStartClientHook"
    /\ \E i \in DOMAIN lout : lout[i].cmd = "TlsEstablishedClientHook"
    /\ \E j \in DOMAIN lhist.child : lhist.child[j].event = QuicStartEvent

(***************************************************************************)
(* The OpenConnection a server layer captures.                             *)
(***************************************************************************)
\* positions in the child's history of the OpenConnectionCompleted events the layer made
Completions ==
    {j \in DOMAIN lhist'.child : lhist'.child[j].event.type = "OpenConnectionCompleted"
                                 /\ lhist'.child[j].event.by = "layer"}

\* 1 if a captured OpenConnection is outstanding in a layer, else 0
Outstanding1(layer) == IF layer.open_command # None THEN 1 ELSE 0

\* the error a close of the server connection is reported with
ClosedError(layer) ==
    IF layer.tls = None THEN "TLS initialization failed" ELSE "Connection closed before connect"

C20_Step ==
    LET l == lhist'.last.layer
        child == lhist'.child
        at == lhist'.child_at
        opened == lhist'.opened
        closing == lhist'.last.kind = "ConnectionClosed" /\ layers[l].open_command # None
    IN
    layers'[l].handler = "server" =>
      /\ raised' # "AssertionError: _open_command"
      \* every captured command is answered once or still outstanding
      /\ Outstanding1(layers[l]) + Len(opened) = Cardinality(Completions) + Outstanding1(layers'[l])
      /\ \A j \in Completions :
           LET err == child[j].event.err IN
           \* success: after HandshakeCompleted and its hook, right before the QuicStart
           \/ /\ err = None
              /\ \E k \in DOMAIN lhist'.drained : lhist'.drained[k].type = "HandshakeCompleted"
              /\ at[j] >= 2 /\ lout'[at[j] - 1].cmd = "TlsEstablishedServerHook"
              /\ \A i \in 1..j : child[i].event # QuicStartEvent
              /\ layers'[l].conn.tls_established
           \* the runtime's error, right after the layer's own OpenConnection
           \/ /\ err # None
              /\ \E o \in DOMAIN opened : opened[o].err = err /\ opened[o].at = at[j]
           \* the server connection closed while the command was outstanding
           \/ /\ closing /\ j = 1 /\ at[j] = 0
              /\ err = ClosedError(layers[l])
      \* nothing stays unanswered once the open failed, the handshake completed or the
      \* connection closed
      /\ \A o \in DOMAIN opened :
           opened[o].err # None =>
             \E j \in Completions : child[j].event.err = opened[o].err /\ at[j] = opened[o].at
      /\ closing => 1 \in Completions
      /\ layers'[l].conn.tls_established => layers'[l].open_command = None
      /\ \A j \in DOMAIN child :
           (child[j].event = QuicStartEvent /\ layers[l].open_command # None) =>
             \E i \in Completions : i < j /\ child[i].event.err = None

\* C20: a server layer answers every OpenConnection(server) it captures exactly once: with
\* no error after the engine's HandshakeCompleted and its TlsEstablishedServerHook and
\* before the QuicStart reaches the child; with the runtime's error right after the
\* layer's own OpenConnection failed; with "TLS initialization failed" (no TLS settings)
\* or "Connection closed before connect" when the server connection closes while the
\* command is outstanding.  No command is answered twice, and none is outstanding after
\* the handshake completed or the close was handled.
C20_CapturedOpenAnsweredOnce == [][C20_Step]_vars

\* the handshake completes for a captured OpenConnection: the child has been handed the
\* OpenConnectionCompleted without error and then the QuicStart
C20_Witness ==
    /\ layers[1].handler = "server"
    /\ layers[1].conn.tls_established
    /\ layers[1].open_command = None
    /\ \E j \in DOMAIN lhist.child :
         /\ lhist.child[j].event = OpenConnectionCompleted(None, "layer")
         /\ j + 1 \in DOMAIN lhist.child
         /\ lhist.child[j + 1].event = QuicStartEvent

(***************************************************************************)
(* ConnectionClosed on a layer that holds an engine.                       *)
(***************************************************************************)
\* the step is the handler of an event: the clock stands still
HandlerStep == clock'.time = clock.time

\* layer l held an engine when it was handed the ConnectionClosed just handled
ClosedWithEngine(l) ==
    /\ lhist'.last.kind = "ConnectionClosed"
    /\ lhist'.last.layer = l
    /\ layers[l].handler \in {"quic", "server"}
    /\ layers[l].quic # None

\* layer l has yielded SendData or RequestWakeup in the step
Sends(l) ==
    \E i \in DOMAIN lout' : lout'[i].layer = l /\ lout'[i].cmd \in {"SendData", "RequestWakeup"}

C21_Step ==
    \A l \in LayerIds :
      /\ ClosedWithEngine(l) =>
           /\ layers'[l].engine.state = "TERMINATED"
           /\ layers'[l].engine.close_event =
                IF layers[l].engine.close_event # NoneRec THEN layers[l].engine.close_event
                ELSE ConnectionTerminated(12, None, "UDP connection closed or timed out.")
           /\ layers'[l].quic = None
      /\ (HandlerStep /\ layers[l].conn.closed /\ layers[l].tls # None) => ~Sends(l)

\* C21: a QUIC layer that is handed ConnectionClosed for its own connection while it holds
\* an engine leaves the engine terminated with a close event (the one it had, or an
\* APPLICATION_ERROR event with reason "UDP connection closed or timed out."), drops its
\* engine reference, and from then on yields no SendData and no RequestWakeup.
C21_ClosedEngineTerminated == [][C21_Step]_vars

(***************************************************************************)
(* The TLS hooks of an endpoint.                                           *)
(***************************************************************************)
\* positions of the hooks of one kind layer l has yielded in the step
Hooks(l, cmd) == {i \in DOMAIN lout' : lout'[i].layer = l /\ lout'[i].cmd = cmd}

\* reason = event.reason_phrase or error_code_to_str(event.error_code)
Reason(event) ==
    IF event.reason_phrase # "" THEN event.reason_phrase ELSE error_code_to_str(event.error_code)

C22_Step ==
    HandlerStep =>
    \A l \in LayerIds :
      LET failed == Hooks(l, Hook(layers'[l], "TlsFailedClientHook", "TlsFailedServerHook"))
          established == Hooks(l, Hook(layers'[l], "TlsEstablishedClientHook",
                                       "TlsEstablishedServerHook"))
          other == Hooks(l, Hook(layers'[l], "TlsFailedServerHook", "TlsFailedClientHook"))
                   \cup Hooks(l, Hook(layers'[l], "TlsEstablishedServerHook",
                                      "TlsEstablishedClientHook"))
          before == layers[l].conn
          after == layers'[l].conn
      IN
      /\ other = {}
      /\ Cardinality(failed) + Cardinality(established) <= 1
      \* a hook is the first of its endpoint and records its outcome in the connection
      /\ failed # {} =>
           /\ ~before.tls_established /\ before.error = None
           /\ ~after.tls_established
           /\ after.error = Reason(layers'[l].engine.close_event)
      /\ established # {} =>
           /\ ~before.tls_established /\ before.error = None
           /\ after.tls_established /\ after.error = None
      /\ (failed = {} /\ established = {}) =>
           /\ after.tls_established = before.tls_established
           /\ after.error = before.error
      \* an endpoint that ended before its handshake completed has had its TlsFailed hook
      /\ ( /\ layers'[l].tls # None
           /\ layers'[l].quic = None \/ after.closed
           /\ ~after.tls_established ) => after.error # None

\* C22: an endpoint on which start_tls succeeded gets exactly one TlsFailed hook of its own
\* variant, with the termination reason as the endpoint's error, if its engine terminates
\* or its connection closes before the handshake completed; it gets exactly one
\* TlsEstablished hook and never a TlsFailed hook if the handshake completed; never both.
C22_OneTlsOutcome == [][C22_Step]_vars

(***************************************************************************)
(* The drain of the engine's events.                                       *)
(***************************************************************************)
\* commands.CloseConnection(self.conn) as layer l yields it
CloseOwn(l) == [layer |-> l, cmd |-> "CloseConnection", connection |-> l]

C23_Step ==
    HandlerStep =>
      \* in order: what was taken from the queue, then what is still in it
      /\ \A f \in LayerIds :
           lhist'.fed = <<f>> => lhist'.queued = lhist'.drained \o layers'[f].engine.events
      /\ \A k \in DOMAIN lhist'.stopped :
           LET r == lhist'.stopped[k] IN
           /\ k = 1
           /\ lhist'.drained[r.drained].type = "ConnectionTerminated"
           /\ \A i \in 1..(r.drained - 1) : lhist'.drained[i].type # "ConnectionTerminated"
           \* nothing more is taken from the queue, no engine event is handed to the child
           \* and transmit() is not run afterwards
           /\ Len(lhist'.drained) = r.drained
           /\ \A j \in DOMAIN lhist'.child :
                j > r.child => lhist'.child[j].event.type # "QuicConnectionEvent"
           /\ Len(lhist'.timers) = r.transmits
           /\ layers'[r.layer].quic = None
           \* the CloseConnection, if any, follows the log of handle_connection_terminated
           /\ lout'[r.at] = [layer |-> r.layer, cmd |-> "Log", message |-> "QUIC connection destroyed"]
           /\ r.connected <=> (Len(lout') > r.at /\ lout'[r.at + 1] = CloseOwn(r.layer))

\* C23: process_events takes the engine's events in the order the engine queued them, and
\* a ConnectionTerminated ends the drain: the events queued after it stay in the queue,
\* nothing more is handed to the child, transmit() is not run, and CloseConnection for the
\* layer's connection is yielded exactly if the connection is still connected.
C23_DrainStopsAtTermination == [][C23_Step]_vars

\* the engine queued a ConnectionTerminated and another event after it: the drain stopped
\* at the first and the connection was closed
C23_Witness ==
    /\ raised = None
    /\ Len(lhist.queued) = 2
    /\ Len(lhist.stopped) = 1
    /\ lhist.drained = <<lhist.queued[1]>>
    /\ layers[1].engine.events = <<lhist.queued[2]>>
    /\ lout # <<>>
    /\ lout[Len(lout)] = CloseOwn(1)

(***************************************************************************)
(* CloseConnection commands of the child.                                  *)
(***************************************************************************)
\* the child's command c was yielded to the runtime as it is
PassedThrough(c, cmd) == Len(lout') > c.at /\ lout'[c.at + 1] = cmd

C24_Step ==
    HandlerStep =>
      /\ \A k \in DOMAIN lhist'.commands :
           LET c == lhist'.commands[k] IN
           \* without an engine the command is forwarded
           /\ (c.command = "CloseConnection" /\ ~c.engine) => PassedThrough(c, CloseOwn(c.layer))
           \* with an engine the engine is closed instead
           /\ (c.command = "CloseConnection" /\ c.engine) =>
                /\ layers'[c.layer].engine.state \in {"CLOSING", "TERMINATED"}
                /\ layers'[c.layer].engine.close_event # NoneRec
                /\ layers[c.layer].engine.close_event = NoneRec =>
                     layers'[c.layer].engine.close_event \in
                       {ConnectionTerminated(0, None, "CloseConnection command received.")}
                       \cup {e \in CloseEvents : \E i \in DOMAIN lhist'.queued : lhist'.queued[i] = e}
           \* a command for another connection passes through
           /\ c.command = CloseServer => PassedThrough(c, [layer |-> c.layer, cmd |-> CloseServer])
      \* a CloseConnection for the layer's connection reaches the runtime either forwarded
      \* from a child of a layer without engine, or from process_events after the
      \* ConnectionTerminated
      /\ \A i \in DOMAIN lout', l \in LayerIds :
           lout'[i] = CloseOwn(l) =>
             \/ \E k \in DOMAIN lhist'.commands :
                  /\ lhist'.commands[k] = [layer |-> l, command |-> "CloseConnection",
                                           at |-> i - 1, engine |-> FALSE]
             \/ \E k \in DOMAIN lhist'.stopped :
                  lhist'.stopped[k].layer = l /\ lhist'.stopped[k].at = i - 1

\* C24: a CloseConnection of the child for the layer's own connection is yielded to the
\* runtime only by a layer without engine; a layer with an engine closes the engine
\* instead, and a CloseConnection for that connection is then yielded only by
\* process_events after it has handled the engine's ConnectionTerminated; a command for
\* another connection is yielded as it is.
C24_CloseSwallowedWhileEngineLives == [][C24_Step]_vars

\* the child closed the connection of a layer whose handshake had completed: the engine
\* is closing and nothing was yielded for the command
C24_Witness ==
    /\ raised = None
    /\ lhist.commands = <<[layer |-> 1, command |-> "CloseConnection", at |-> 0, engine |-> TRUE]>>
    /\ layers[1].engine.state = "CLOSING"
    /\ layers[1].engine.close_event = ConnectionTerminated(0, None, "CloseConnection command received.")
    /\ layers[1].quic # None
    /\ layers[1].conn.connected
    /\ \A i \in DOMAIN lout : lout[i].cmd # "CloseConnection"

(***************************************************************************)
(* StreamReset in the relay.                                               *)
(***************************************************************************)
\* a stream as it is before the step, or as get_or_create_stream would create it
StreamBefore(stream_id) ==
    IF stream_id \in DOMAIN relay.streams_by_id THEN relay.streams_by_id[stream_id]
    ELSE QuicStream(stream_id, relay.flow = NoneRec)

\* no engine was closed and no connection was closed in the step
NothingClosed ==
    /\ relay'.state = "ready"
    /\ conns' = conns
    /\ \A s \in Sides :
         /\ engines'[s].close_event = engines[s].close_event
         /\ \A i \in DOMAIN NewCalls(s) : NewCalls(s)[i].call # "close"
    /\ \A i \in DOMAIN out' : out'[i].cmd # "CloseConnection"

C25_Step ==
    \A side \in Sides, event \in DataEvents :
      LET from_client == side = "client"
          peer == PeerOf(side)
          sid == event.stream_id
          before == StreamBefore(sid)
          after == relay'.streams_by_id[sid]
      IN
      ( /\ event.type = "StreamReset"
        /\ relay.state = "ready"
        /\ Registered(peer) # None
        /\ hist'.arrived[side] = Append(hist.arrived[side], event) )
      =>
      /\ raised' = None
      /\ NothingClosed
      /\ NewCalls(side) = <<>>
      /\ \A i \in DOMAIN relay.streams_by_id : i # sid => relay'.streams_by_id[i] = relay.streams_by_id[i]
      /\ DOMAIN relay'.streams_by_id = DOMAIN relay.streams_by_id \cup {sid}
      /\ has_ended(after, ~from_client) = has_ended(before, ~from_client)
      /\ IF has_ended(before, from_client)
         THEN \* dropped
              /\ NewCalls(peer) = <<>>
              /\ hist'.marked = <<>>
              /\ after = before
              /\ out'[Len(out')] = [cmd |-> "Log", message |-> "Received reset for already closed stream"]
         ELSE \* forwarded with the stream id and the error code, the side marked ended
              /\ NewCalls(peer) = <<[call |-> "reset_stream", stream_id |-> sid,
                                     error_code |-> event.error_code]>>
              /\ has_ended(after, from_client)
              /\ hist'.marked = <<[stream_id |-> sid, client |-> from_client, ended |-> FALSE,
                                   err |-> IF event.error_code = 268 THEN "H3_REQUEST_CANCELLED"
                                           ELSE "unknown error"]>>
              /\ after.flow # NoneRec =>
                   after.flow.error = IF before.flow.error = None THEN "H3_REQUEST_CANCELLED"
                                      ELSE before.flow.error
              /\ out'[Len(out')] = QuicTransmit(peer)

\* C25: a StreamReset handled in Ready for a side of a stream that has not ended makes one
\* reset_stream call on the peer engine with the same stream id and error code and marks
\* that side, and only that side, ended with the name of the error code (the stream's flow
\* takes it as its error unless it has one); the relay stays in Ready, closes no connection
\* and no engine and leaves every other stream as it is.  A StreamReset for a side that has
\* ended is only logged: no call is made on the peer engine.
C25_StreamResetForwarded == [][C25_Step]_vars

\* the client reset stream 0 and the server's data on the same stream was relayed afterwards
C25_Witness ==
    /\ relay.state = "ready"
    /\ relay.flow # NoneRec
    /\ engines.server.calls = <<[call |-> "reset_stream", stream_id |-> 0, error_code |-> 268]>>
    /\ relay.streams_by_id[0].ended_client
    /\ relay.streams_by_id[0].flow.error = "H3_REQUEST_CANCELLED"
    /\ ~relay.streams_by_id[0].ended_server
    /\ hist.last.side = "server"
    /\ engines.client.calls # <<>>
    /\ engines.client.calls[Len(engines.client.calls)].call = "send_stream_data"
    /\ engines.client.calls[Len(engines.client.calls)].stream_id = 0

(***************************************************************************)
(* ConnectionClosed in the relay.                                          *)
(***************************************************************************)
\* the side the step handled a ConnectionClosed for
ClosedInStep(side) ==
    /\ hist'.last = [kind |-> "ConnectionClosed", side |-> side, event |-> NoneRec, hook |-> None]
    /\ ~conns[side].closed
    /\ conns'[side].closed

\* every stream has ended on both sides and no flow is live
AllEnded(r) ==
    /\ \A i \in DOMAIN r.streams_by_id :
         LET stream == r.streams_by_id[i] IN
         /\ stream.ended_client
         /\ stream.ended_server
         /\ stream.flow # NoneRec => ~stream.flow.live
    /\ r.flow # NoneRec => ~r.flow.live

C26_Step ==
    /\ \A side \in Sides :
         ClosedInStep(side) =>
           /\ raised' = None
           /\ DOMAIN relay'.streams_by_id = DOMAIN relay.streams_by_id
           /\ \A i \in DOMAIN relay.streams_by_id :
                LET before == relay.streams_by_id[i]
                    after == relay'.streams_by_id[i]
                    from_client == side = "client"
                    called == [stream_id |-> i, client |-> from_client, ended |-> FALSE,
                               err |-> "Connection closed."]
                IN
                /\ has_ended(after, from_client)
                /\ has_ended(after, ~from_client) = has_ended(before, ~from_client)
                /\ IF has_ended(before, from_client)
                   THEN /\ after = before
                        /\ \A k \in DOMAIN hist'.marked : hist'.marked[k].stream_id # i
                   ELSE /\ \E k \in DOMAIN hist'.marked : hist'.marked[k] = called
                        /\ after.flow # NoneRec =>
                             after.flow.error = IF before.flow.error = None
                                                THEN "Connection closed."
                                                ELSE before.flow.error
    /\ (conns'.client.closed /\ conns'.server.closed) => AllEnded(relay')

\* C26: a ConnectionClosed handled for a side leaves every stream the relay knows ended on that
\* side and no stream's other side changed; a stream that had not ended on that side is marked
\* with "Connection closed.", which its flow takes as its error unless it has an earlier one,
\* and a stream that had ended is left as it is.  Once ConnectionClosed has been handled for
\* both sides every stream has ended on both sides, no stream flow is live and the UDP flow is
\* not live.
C26_ConnectionClosedEndsStreams == [][C26_Step]_vars

\* both sides are closed; stream 0, reset by the client, keeps the error of the reset and
\* another stream carries the synthetic error
C26_Witness ==
    /\ conns.client.closed
    /\ conns.server.closed
    /\ relay.flow # NoneRec
    /\ ~relay.flow.live
    /\ 0 \in DOMAIN relay.streams_by_id
    /\ relay.streams_by_id[0].flow.error = "H3_REQUEST_CANCELLED"
    /\ ~relay.streams_by_id[0].flow.live
    /\ \E i \in DOMAIN relay.streams_by_id :
         /\ relay.streams_by_id[i].flow.error = "Connection closed."
         /\ ~relay.streams_by_id[i].flow.live
    /\ hist.last.kind = "ConnectionClosed"
    /\ hist.marked # <<>>

(***************************************************************************)
(* The states of a roaming layer.                                          *)
(***************************************************************************)
RoamingLayers(ls) == {l \in LayerIds : ls[l].handler = "roaming"}

\* the route of roaming layer l in its target's table
HasRoute(ls, l) ==
    LET routes == ls[ls[l].roaming.target].routes IN
    /\ ls[l].conn.peername \in DOMAIN routes
    /\ routes[ls[l].conn.peername] = l

C27_Step ==
    HandlerStep =>
      /\ raised' \notin {"AssertionError: add_route", "KeyError: remove_route",
                        "AssertionError: remove_route", "AssertionError: Unexpected event",
                        "AssertionError: Unexpected event type"}
      /\ \A l \in RoamingLayers(layers') :
           LET before == IF l \in RoamingLayers(layers) THEN layers[l].roaming.state ELSE "start"
               after == layers'[l].roaming.state
               mine == lhist'.last.layer = l
               kind == lhist'.last.kind
           IN
           \* Start -> Relay -> Closed, each move made by the event that the state handles
           /\ <<before, after>> \in {<<"start", "relay">>, <<"relay", "relay">>,
                                     <<"relay", "closed">>, <<"closed", "closed">>}
           /\ (before = "relay" /\ after = "closed") <=>
                (before = "relay" /\ mine /\ kind = "ConnectionClosed")
           /\ layers'[l].roaming.target = (IF before = "start" THEN layers'[l].roaming.target
                                           ELSE layers[l].roaming.target)
           \* the route is there exactly while the layer relays
           /\ HasRoute(layers', l) <=> after = "relay"
           /\ after # "relay" => layers'[l].conn.peername \notin
                                   DOMAIN layers'[layers'[l].roaming.target].routes
           \* a closed layer drops what it gets
           /\ (before = "closed" /\ mine) =>
                /\ raised' = None
                /\ lout' = <<>>
                /\ lhist'.roamed = <<>>
                /\ lhist'.child = <<>> /\ lhist'.udp = <<>> /\ lhist'.fed = <<>>
                /\ layers' = layers
                /\ connections' = connections
      /\ RoamingLayers(layers) \subseteq RoamingLayers(layers')

C27_Relaying ==
    /\ layers[2].handler = "roaming"
    /\ layers[2].roaming.state = "relay"
    /\ HasRoute(layers, 2)
    /\ lhist.last.kind = "MessageInjected"
    /\ lhist.roamed # <<>>

(***************************************************************************)
(* A connection the addons ask to ignore.                                  *)
(***************************************************************************)
\* the last handler took a first Initial of flow l and the TlsClienthelloHook set ignore_connection
IgnoredInitial(l) ==
    /\ DatagramOn(l)
    /\ layers[l].handler = "quic"
    /\ Positions("TlsClienthelloHook") # {}
    /\ lhist'.answers.ignore_connection

\* an event of flow l reached the pass-through layer that replaced its QUIC layer
PassedThroughUdp(l) ==
    /\ HandlerStep
    /\ lhist'.last.layer = l
    /\ layers[l].handler = "udp"

C28_Step ==
    \A l \in LayerIds :
      /\ IgnoredInitial(l) =>
           /\ raised' = None
           /\ layers'[l] = [layers[l] EXCEPT !.handler = "udp",
                                             !.conn.sni = "example.com",
                                             !.conn.alpn_offers = <<"h3">>,
                                             !.conn.connected = layers'[l].conn.connected]
           /\ layers'[l].quic = None /\ layers'[l].tls = None
           /\ \A k \in LayerIds \ {l} : layers'[k] = layers[k]
           /\ Positions("OpenConnection") = {}
           /\ Positions("QuicTlsStartClientHook") = {}
           /\ Positions("RequestWakeup") = {} /\ Positions("SendData") = {}
           /\ lhist'.fed = <<>> /\ lhist'.started = NoneRec /\ lhist'.opened = <<>>
           /\ connections' = connections
           /\ clock' = clock
           \* the replacement is started and handed the datagram
           /\ lhist'.udp = <<[layer |-> l, event |-> [type |-> "Start"]],
                             [layer |-> l, event |-> DataReceived(lhist'.last.datagram)]>>
      /\ PassedThroughUdp(l) =>
           /\ raised' = None
           /\ Len(lhist'.udp) = 1
           /\ lhist'.udp[1].layer = l
           /\ lhist'.udp[1].event.type = lhist'.last.kind
           /\ lhist'.last.kind = "DataReceived" =>
                lhist'.udp[1].event = DataReceived(lhist'.last.datagram)
           /\ lhist'.first = <<>> /\ lhist'.fed = <<>> /\ lhist'.child = <<>>
           /\ lhist'.drained = <<>> /\ lhist'.roamed = <<>>
           /\ lout' = <<>>
           /\ layers'[l].handler = "udp"
           /\ layers'[l].quic = None /\ layers'[l].tls = None
           /\ connections' = connections
           /\ clock' = clock

\* C28: when the TlsClienthelloHook sets ignore_connection for the first Initial of a flow, the
\* flow's handler becomes the pass-through UDP layer, which is started and handed the datagram;
\* the layer records the ClientHello's SNI and ALPN offers and is otherwise as before: no
\* OpenConnection and no QuicTlsStartClientHook is yielded, no engine and no TLS settings are
\* created, no connection ID is generated and the connection-ID table is unchanged.  Every
\* later event of the flow is handed to the UDP layer only: the QUIC layer parses nothing,
\* feeds no engine, hands nothing to its child and yields nothing.
C28_IgnoredConnectionPassesThrough == [][C28_Step]_vars

\* a later datagram of an ignored flow has been handed to the UDP layer
C28_Witness ==
    /\ layers[1].handler = "udp"
    /\ layers[1].conn.sni = "example.com"
    /\ layers[1].quic = None
    /\ connections = <<>>
    /\ lhist.last.kind = "DataReceived"
    /\ lhist.udp = <<[layer |-> 1, event |-> DataReceived(lhist.last.datagram)]>>
    /\ lhist.last.datagram.packet_type = "SHORT"

(***************************************************************************)
(* Ownership of the connection IDs.                                        *)
(***************************************************************************)
\* C29: no handler of a client layer fails in the connection-ID table: a ConnectionIdRetired
\* for a connection ID of the layer's engine, the host connection ID included, finds its key
\* (no KeyError) owned by the layer (no failed assertion), and a ConnectionIdIssued finds its
\* key absent (no failed assertion).
C29_OwnershipAssertionsHold ==
    raised \notin {"KeyError: connection_id", "AssertionError: not the owner",
                   "AssertionError: connection_id in connections"}

\* the engine retired its host connection ID and the layer did not find the key
C29_HostCidRetired ==
    /\ raised = "KeyError: connection_id"
    /\ lhist.drained # <<>>
    /\ lhist.drained[Len(lhist.drained)] = ConnectionIdRetired(layers[1].engine.host_cid)

(***************************************************************************)
(* The engine's deadline and the wakeups.                                  *)
(***************************************************************************)
\* layer l holds an engine and no handler has failed
LiveEngine(l) == raised = None /\ layers[l].handler \in {"quic", "server"} /\ layers[l].quic # None

\* an outstanding wakeup of layer l is due by the deadline the engine reported last
WakeupPending(l) ==
    /\ layers[l].engine.timer # <<>>
    /\ DueBy(l, layers[l].engine.timer[1]) # {}

DeadlineCovered == \A l \in LayerIds : LiveEngine(l) => WakeupPending(l)

\* a requested wakeup of layer l can be delivered: the guard of LayerWakeup
WakeupDue(l) ==
    /\ raised = None
    /\ layers[l].handler = "quic"
    /\ \E i \in DOMAIN layers[l].wakeup_commands : layers[l].wakeup_commands[i] <= clock.time

\* a Wakeup was handled by layer l
WakeupDelivered(l) ==
    /\ HandlerStep
    /\ lhist'.last = [kind |-> "Wakeup", layer |-> l, datagram |-> NoneRec]

\* time passes, and the event loop does not leave a requested wakeup undelivered for ever
\* once its deadline has come
SpecTimerLive ==
    /\ InitClient
    /\ [][NextTimer]_vars
    /\ WF_vars(Tick)
    /\ ([]<>(~WakeupDue(1)) \/ []<><<WakeupDelivered(1)>>_vars)

\* a Wakeup made layer l call handle_timer on its engine
TimerHandled(l) ==
    /\ WakeupDelivered(l)
    /\ lhist'.fed = <<l>>

\* C30: in every state in which a layer holds an engine (no handler having failed), the
\* layer's outstanding wakeups include one whose deadline is at most the deadline the engine
\* reported last; and when due wakeups are delivered and time passes, the layer handles the
\* engine's timer on a Wakeup again and again for as long as it holds the engine.
C30_DeadlineCoveredAndHandled ==
    /\ []DeadlineCovered
    /\ ([]<><<TimerHandled(1)>>_vars \/ <>[](~LiveEngine(1)))

\* the engine's deadline moved earlier and a second wakeup covers it; a Wakeup was just handled
C30_Witness ==
    /\ LiveEngine(1)
    /\ lhist.last.kind = "Wakeup"
    /\ lhist.fed = <<1>>
    /\ Len(Outstanding(1)) >= 2
    /\ WakeupPending(1)
    /\ layers[1].engine.timer[1] < Outstanding(1)[1]

(***************************************************************************)
(* The engine and the TLS settings of a layer.                             *)
(***************************************************************************)
QuicLayers == {l \in LayerIds : layers[l].handler \in {"quic", "server"}}

\* the positions at which layer l yielded the hook of start_tls in the last handler
StartTlsHooks(l) ==
    {i \in DOMAIN lout' : /\ lout'[i].layer = l
                          /\ lout'[i].cmd \in {"QuicTlsStartClientHook", "QuicTlsStartServerHook"}}

C31_Step ==
    /\ raised' # "AssertionError: start_tls"
    /\ \A l \in LayerIds :
         /\ layers[l].quic # None => layers[l].tls # None
         /\ layers'[l].quic # None => layers'[l].tls # None
         \* settings are never cleared nor replaced
         /\ layers[l].tls # None => layers'[l].tls = layers[l].tls
         \* an engine is created only together with the first settings, and never replaced
         /\ (layers[l].quic = None /\ layers'[l].quic # None) =>
              layers[l].tls = None /\ layers'[l].tls # None
         /\ (layers[l].quic # None /\ layers'[l].quic # None) =>
              layers'[l].engine.host_cid = layers[l].engine.host_cid
         /\ (layers[l].tls # None /\ layers[l].quic = None) => layers'[l].quic = None
         \* start_tls runs only while no settings are set, and at most once with settings
         /\ (HandlerStep /\ StartTlsHooks(l) # {}) =>
              /\ layers[l].tls = None
              /\ Cardinality(StartTlsHooks(l)) = 1
              /\ layers'[l].tls = None <=> lhist'.started = NoneRec

\* C31: a layer that holds an engine holds TLS settings; settings once set are never cleared
\* or replaced; an engine appears only in the step that sets the settings for the first time,
\* is never exchanged for another and, once dropped, never comes back, so a layer creates at
\* most one engine; start_tls runs only on a layer without settings, that is only if every
\* earlier run ended without settings from the addons, and its assertions never fail.
C31_OneEnginePerLayer == [][C31_Step]_vars

\* start_tls ran again after the addons had supplied no settings, and the engine it then
\* created has been dropped while the settings stay
C31_Witness ==
    /\ layers[1].tls # None
    /\ layers[1].quic = None
    /\ layers[1].engine.host_cid # 0
    /\ lhist.last.kind = "DataReceived"
    /\ lhist.first = <<>>
    /\ raised = None

(***************************************************************************)
(* The hooks of the UDP flow.                                              *)
(***************************************************************************)
HookPositions(hook) == {i \in DOMAIN hist.hooks : hist.hooks[i].cmd = hook}

\* C32: over the lifetime of a relay UdpEndHook is yielded at most once and never after
\* UdpErrorHook, and UdpErrorHook is yielded at most once.
C32_UdpHooksOnce ==
    /\ Cardinality(HookPositions("UdpEndHook")) <= 1
    /\ Cardinality(HookPositions("UdpErrorHook")) <= 1
    /\ \A i \in HookPositions("UdpErrorHook"), j \in HookPositions("UdpEndHook") : j < i

\* what does hold: at most one UdpErrorHook, and no UdpEndHook after it
C32_ErrorOnceThenSilence ==
    /\ Cardinality(HookPositions("UdpErrorHook")) <= 1
    /\ \A i \in HookPositions("UdpErrorHook"), j \in HookPositions("UdpEndHook") : j < i
    /\ Cardinality(HookPositions("UdpEndHook")) <= 2

(***************************************************************************)
(* The hooks of a stream's flow.                                           *)
(***************************************************************************)
TcpHooks == {"TcpStartHook", "TcpMessageHook", "TcpErrorHook", "TcpEndHook"}

\* the positions in the relay's hook history of the hooks of stream stream_id named in names
StreamHooks(stream_id, names) ==
    {i \in DOMAIN hist.hooks : /\ hist.hooks[i].cmd \in names
                               /\ hist.hooks[i].stream_id = stream_id}

\* C33: for every stream of the relay that has a flow, the hook history holds exactly one
\* TcpStartHook of the stream and it precedes every other hook of the stream; at most one
\* TcpErrorHook; at most one TcpEndHook and none next to a TcpErrorHook; every TcpMessageHook
\* carried a live flow; a stream without a flow (ignored or never seen) has no stream hook.
C33_StreamHookProtocol ==
    \A stream_id \in StreamIds :
      LET known == stream_id \in DOMAIN relay.streams_by_id
          starts == StreamHooks(stream_id, {"TcpStartHook"})
          messages == StreamHooks(stream_id, {"TcpMessageHook"})
          errors == StreamHooks(stream_id, {"TcpErrorHook"})
          ends == StreamHooks(stream_id, {"TcpEndHook"})
      IN
      IF known /\ relay.streams_by_id[stream_id].flow # NoneRec
      THEN LET flow == relay.streams_by_id[stream_id].flow IN
           /\ Cardinality(starts) = 1
           /\ \A i \in starts, j \in messages \cup errors \cup ends : i < j
           /\ Cardinality(errors) <= 1
           /\ Cardinality(ends) <= 1
           /\ errors = {} \/ ends = {}
           /\ errors # {} <=> flow.error # None
           /\ ends # {} <=> (~flow.live /\ flow.error = None)
           \* a message hook sees a live flow and precedes the end of the stream
           /\ \A j \in messages : hist.hooks[j].live
           /\ \A j \in messages, k \in ends : j < k
      ELSE StreamHooks(stream_id, TcpHooks) = {}

\* C33 witness: one stream was started, relayed a message and ended cleanly, another
\* stream was started, relayed a message and ended with an error
C33_Witness ==
    \E ended, failed \in StreamIds :
        /\ StreamHooks(ended, {"TcpMessageHook"}) # {}
        /\ StreamHooks(ended, {"TcpEndHook"}) # {}
        /\ StreamHooks(failed, {"TcpMessageHook"}) # {}
        /\ StreamHooks(failed, {"TcpErrorHook"}) # {}

====
